---- MODULE Spec2Model ----
(***************************************************************************)
(* TaskBuddy gamification core: points ledger with its balance trigger,    *)
(* achievement unlocking, the XP/level curve, the streak calculator, the   *)
(* streak and early completion bonuses, the family leaderboard and the     *)
(* task approval flow, modelled from the design document src/README.md;    *)
(* the accounts of src/backend (auth service, family and auth routes) and  *)
(* the offline sync manager of the design document.                        *)
(*                                                                         *)
(* Specifications:                                                         *)
(*   Spec        points_ledger + child_achievements + notifications        *)
(*   SpecLevel   xpRequiredForLevel / cumulativeXpForLevel / levelFromXp   *)
(*   SpecDay     StreakCalculator.getStreakDay                             *)
(*   SpecStreak  StreakCalculator.calculateStreak over a completion store  *)
(*   SpecBonus   calculateStreakBonus                                      *)
(*   SpecEarly   calculateEarlyCompletionBonus                             *)
(*   SpecXp      calculateTaskXp at the clock of the approval              *)
(*   SpecAnySign xpRequiredForLevel / calculateStreakBonus, any sign       *)
(*   SpecBoard   LeaderboardService.getFamilyLeaderboard                   *)
(*   SpecApprove two concurrent TaskService.approveTask calls              *)
(*   SpecReapprove two approveTask calls for one assignment                *)
(*   SpecTotalXp levelFromXp on totals around every level boundary         *)
(*   SpecStreakAny calculateStreak under any configuration, fair           *)
(*   SpecFamily  the child routes of the family and auth routers           *)
(*   SpecLockout PIN logins of one child while the clock moves             *)
(*   SpecSession login, refresh and logout of one browser                  *)
(*   SpecSync    SyncManager over the sync and dead-letter queues          *)
(*   SpecRace    two concurrent AchievementEngine.unlockAchievement calls  *)
(***************************************************************************)
EXTENDS Integers, Sequences, FiniteSets, TLC

VARIABLES
    ledger,             \* points_ledger rows per child, in insertion order
    childAchievements,  \* child_achievements rows, in insertion order
    notifications,      \* notifications sent, in order
    lastInsert,         \* the last INSERT on points_ledger and its outcome
    unlockRuns,         \* completed unlockAchievement runs per (child, achievement)
    lvlCall,            \* XP/level model: the call being evaluated
    lvlResult,          \* XP/level model: its result
    gracePeriodHours,   \* StreakConfig.gracePeriodHours
    minimumTasksPerDay, \* StreakConfig.minimumTasksPerDay
    now,                \* wall clock, in minutes since the epoch
    completions,        \* approved_at of the child's approved assignments
    dayCall,            \* getStreakDay: the timestamp passed in
    dayResult,          \* getStreakDay: the streak-day returned
    calcPc,             \* calculateStreak: "idle", "loop", "risk" or "done"
    completionsByDay,   \* calculateStreak: Map from streak-day to count
    checkDate,          \* calculateStreak: the loop's checkDate
    currentStreak,      \* calculateStreak: the loop's counter
    streakResult,       \* the StreakResult returned by calculateStreak
    bonusCall,          \* calculateStreakBonus: the arguments
    bonusResult,        \* calculateStreakBonus: the PointsBreakdown returned
    earlyCall,          \* calculateEarlyCompletionBonus: the arguments
    earlyResult,        \* calculateEarlyCompletionBonus: the bonus returned
    xpCall,             \* calculateTaskXp: the task, its completion, the clock
    xpResult,           \* calculateTaskXp: the XP returned
    boardUsers,         \* leaderboard: users rows, in the order find returns them
    boardLedger,        \* leaderboard: points_ledger rows with created_at
    boardAssignments,   \* leaderboard: task_assignments rows with approved_at
    boardProfiles,      \* leaderboard: child_profiles.current_streak_days
    boardAchievements,  \* leaderboard: child_achievements rows
    boardCall,          \* getFamilyLeaderboard: familyId, period and the clock
    boardResult,        \* getFamilyLeaderboard: the entries returned
    childProfiles,      \* approveTask: child_profiles counters per child
    taskAssignments,    \* approveTask: task_assignments rows under approval
    taskHistory,        \* approveTask: what the older assignment rows count to
    approvePc,          \* approveTask: where each running call stands
    approveLocal,       \* approveTask: the locals of each running call
    emitted,            \* approveTask: Socket.io events emitted, in order
    users,              \* auth: users rows with their child_profiles row
    authNow,            \* auth: the server clock, in minutes
    failedAttempts,     \* auth: the redis keys failed_attempts:<userId>
    failureLog,         \* auth: the times of the failed PIN attempts per child
    issued,             \* auth: the refresh tokens signed so far
    browser,            \* auth: one client's cookie and the tokens it was sent
    authResult,         \* auth: the last request and its outcome
    syncQueue,          \* sync: the rows of db.syncQueue
    syncDeadLetter,     \* sync: the rows of db.syncDeadLetter, in the order added
    syncRun,            \* sync: isProcessing and the items left in the running loop
    syncHistory,        \* sync: per item, its failures since queued and its success
    unlockCalls         \* unlockAchievement: where each concurrent invocation stands

ledgerVars == <<ledger, childAchievements, notifications, lastInsert, unlockRuns>>
levelVars  == <<lvlCall, lvlResult>>
streakVars == <<gracePeriodHours, minimumTasksPerDay, now, completions, dayCall, dayResult,
               calcPc, completionsByDay, checkDate, currentStreak, streakResult>>
bonusVars  == <<bonusCall, bonusResult>>
earlyVars  == <<earlyCall, earlyResult>>
xpVars     == <<xpCall, xpResult>>
\* State of the engines modelled further down
boardVars  == <<boardUsers, boardLedger, boardAssignments, boardProfiles,
                boardAchievements, boardCall, boardResult>>
approveVars == <<childProfiles, taskAssignments, taskHistory, approvePc,
                 approveLocal, emitted>>
authVars   == <<users, authNow, failedAttempts, failureLog, issued, browser, authResult>>
\* State of the services outside the gamification core
syncVars   == <<syncQueue, syncDeadLetter, syncRun, syncHistory>>
raceVars   == <<unlockCalls>>
serviceVars == <<authVars, syncVars, raceVars>>
engineVars == <<earlyVars, xpVars, boardVars, approveVars, serviceVars>>
vars == <<ledgerVars, levelVars, streakVars, bonusVars, engineVars>>
\* What the actions of one engine leave alone
exceptEarly == <<ledgerVars, levelVars, streakVars, bonusVars, xpVars, boardVars,
                 approveVars, serviceVars>>
exceptXp    == <<ledgerVars, levelVars, streakVars, bonusVars, earlyVars, boardVars,
                 approveVars, serviceVars>>
exceptBoard == <<ledgerVars, levelVars, streakVars, bonusVars, earlyVars, xpVars,
                 approveVars, serviceVars>>
exceptApprove == <<levelVars, streakVars, bonusVars, earlyVars, xpVars, boardVars,
                   serviceVars>>
exceptAuth  == <<ledgerVars, levelVars, streakVars, bonusVars, earlyVars, xpVars, boardVars,
                 approveVars, syncVars, raceVars>>
exceptSync  == <<ledgerVars, levelVars, streakVars, bonusVars, earlyVars, xpVars, boardVars,
                 approveVars, authVars, raceVars>>
exceptRace  == <<levelVars, streakVars, bonusVars, earlyVars, xpVars, boardVars,
                 approveVars, authVars, syncVars>>

----------------------------------------------------------------------------
(* Generic helpers *)

Min(a, b) == IF a < b THEN a ELSE b

RECURSIVE SumSeq(_)
SumSeq(s) == IF s = <<>> THEN 0 ELSE s[1] + SumSeq(Tail(s))

----------------------------------------------------------------------------
(* Points ledger *)

MaxLedger == 2

Children == {"c1", "c2"}

\* points_reward per achievements row (one of SYSTEM_ACHIEVEMENTS, and a row
\* that keeps the column default of 0)
PointsReward == [a \in {"FirstSteps", "NoReward"} |->
                    IF a = "FirstSteps" THEN 10 ELSE 0]

Achievements == DOMAIN PointsReward

Amounts == {-5, 10}

NoInsert == [child |-> "none", amount |-> 0, declared |-> 0, prior |-> 0,
             added |-> 0, priorRowsKept |-> TRUE, outcome |-> "none"]

\* SELECT COALESCE(SUM(points_amount), 0) FROM points_ledger WHERE child_id = c
LedgerSum(rows) == SumSeq([i \in 1..Len(rows) |-> rows[i].pointsAmount])

\* validate_points_balance, BEFORE INSERT: the new row is not yet in the
\* table when the sum is taken.  TRUE when the row passes.
validate_points_balance(rows, new) ==
    new.balanceAfter = LedgerSum(rows)

\* INSERT INTO points_ledger under the check_points_balance trigger
LedgerAfterInsert(rows, new) ==
    IF validate_points_balance(rows, new) THEN Append(rows, new) ELSE rows

InsertRecord(c, rows, new) ==
    [child |-> c, amount |-> new.pointsAmount, declared |-> new.balanceAfter,
     prior |-> LedgerSum(rows),
     added |-> Len(LedgerAfterInsert(rows, new)) - Len(rows),
     priorRowsKept |-> SubSeq(LedgerAfterInsert(rows, new), 1, Len(rows)) = rows,
     outcome |-> IF validate_points_balance(rows, new)
                 THEN "inserted" ELSE "IntegrityError"]

LedgerRow(type, amount, balanceAfter, refType) ==
    [transactionType |-> type, pointsAmount |-> amount,
     balanceAfter |-> balanceAfter, referenceType |-> refType]

\* The balances a caller may declare for a row: the balance before the row,
\* the balance after it, and one that is neither.
DeclaredBalances(rows, amount) ==
    {LedgerSum(rows), LedgerSum(rows) + amount, LedgerSum(rows) + amount + 1}

\* A caller inserts one ledger row with the balance it declares.
InsertLedgerEntry(c, amount, declared) ==
    LET new == LedgerRow("earned", amount, declared, "task_completion")
    IN /\ Len(ledger[c]) < MaxLedger
       /\ ledger' = [ledger EXCEPT ![c] = LedgerAfterInsert(@, new)]
       /\ lastInsert' = InsertRecord(c, ledger[c], new)
       /\ UNCHANGED <<childAchievements, notifications, unlockRuns>>
       /\ UNCHANGED <<levelVars, streakVars, bonusVars, engineVars>>

\* awardPoints(childId, points, 'achievement_unlock'): the row it appends is a
\* 'bonus' row that declares balanceAfter = prior balance + points.
awardPointsRow(rows, points, refType) ==
    LedgerRow("bonus", points, LedgerSum(rows) + points, refType)

HasAchievement(c, a) ==
    \E i \in 1..Len(childAchievements) :
        childAchievements[i] = [child |-> c, achievement |-> a]

\* AchievementEngine.unlockAchievement, run to completion.  A failing
\* awardPoints throws: the row inserted before it stays (no transaction), the
\* notification after it is not sent.
unlockAchievement(c, a) ==
    LET new == awardPointsRow(ledger[c], PointsReward[a], "achievement_unlock")
        rewarded == PointsReward[a] > 0
        awardOk == ~rewarded \/ validate_points_balance(ledger[c], new)
    IN /\ unlockRuns[c][a] < 2
       /\ unlockRuns' = [unlockRuns EXCEPT ![c][a] = @ + 1]
       /\ IF HasAchievement(c, a)
          THEN UNCHANGED <<ledger, childAchievements, notifications, lastInsert>>
          ELSE /\ Len(ledger[c]) < MaxLedger
               /\ childAchievements' =
                      Append(childAchievements, [child |-> c, achievement |-> a])
               /\ ledger' = IF rewarded
                            THEN [ledger EXCEPT ![c] = LedgerAfterInsert(@, new)]
                            ELSE ledger
               /\ lastInsert' = IF rewarded THEN InsertRecord(c, ledger[c], new)
                                ELSE lastInsert
               /\ notifications' =
                      IF awardOk
                      THEN Append(notifications,
                                  [user |-> c, type |-> "achievement_unlocked",
                                   achievement |-> a])
                      ELSE notifications
       /\ UNCHANGED <<levelVars, streakVars, bonusVars, engineVars>>

LedgerInit ==
    /\ ledger = [c \in Children |-> <<>>]
    /\ childAchievements = <<>>
    /\ notifications = <<>>
    /\ lastInsert = NoInsert
    /\ unlockRuns = [c \in Children |-> [a \in Achievements |-> 0]]

----------------------------------------------------------------------------
(* XP / level model *)

BASE_XP == 100

MAX_LEVEL == 100

MaxLevelArg == 101

\* floor(sqrt(n)) for 0 <= n < 2^31, four bits of the root at a time:
\* r * r <= n  <=>  r = 0 \/ r <= floor(n / r)
RECURSIVE ISqrt(_)
ISqrt(n) ==
    IF n < 2 THEN n
    ELSE LET s == 16 * ISqrt(n \div 256)
             Below(r) == r = 0 \/ r <= n \div r
         IN s + CHOOSE d \in 0..15 : Below(s + d) /\ (d = 15 \/ ~Below(s + d + 1))

\* floor(sqrt(100 * m)) from floor(sqrt(m)), without forming 100 * m:
\* r * r <= 100 * m  <=>  r <= floor(100 * m / r)
ISqrtTimes100(m) ==
    LET b == ISqrt(m)
        Fits(r) == r = 0 \/ r <= 100 * (m \div r) + (100 * (m % r)) \div r
        d == CHOOSE x \in 0..9 :
                 /\ Fits(10 * b + x)
                 /\ x = 9 \/ ~Fits(10 * b + x + 1)
    IN 10 * b + d

\* Math.floor(BASE_XP * Math.pow(level, GROWTH_FACTOR)) with GROWTH_FACTOR = 1.5:
\* floor(100 * level^1.5) = floor(sqrt(100 * (BASE_XP * level^3))).  The double
\* result equals this integer for every level up to 200 (level^1.5 is exact for
\* square levels and far from an integer boundary otherwise).
xpRequiredForLevel(level) ==
    IF level <= 0 THEN 0
    ELSE ISqrtTimes100(BASE_XP * level * level * level)

\* The sum of xpRequiredForLevel(i) over lo <= i <= hi, halving the range
RECURSIVE SumXpRequired(_, _)
SumXpRequired(lo, hi) ==
    IF lo > hi THEN 0
    ELSE IF lo = hi THEN xpRequiredForLevel(lo)
    ELSE LET mid == (lo + hi) \div 2
         IN SumXpRequired(lo, mid) + SumXpRequired(mid + 1, hi)

\* for (let i = 1; i <= level; i++) total += xpRequiredForLevel(i)
cumulativeXpForLevel(level) == SumXpRequired(1, level)

\* The while loop of levelFromXp run from (level, remainingXp) until it breaks
\* or level reaches limit
RECURSIVE LevelLoop_le(_, _, _)
LevelLoop_le(level, remainingXp, limit) ==
    IF level < limit /\ ~(remainingXp <= xpRequiredForLevel(level))
    THEN LevelLoop_le(level + 1, remainingXp - xpRequiredForLevel(level), limit)
    ELSE [level |-> level, remainingXp |-> remainingXp]

RECURSIVE LevelLoop(_, _, _)
LevelLoop(level, remainingXp, limit) ==
    IF level < limit /\ ~(remainingXp < xpRequiredForLevel(level))
    THEN LevelLoop(level + 1, remainingXp - xpRequiredForLevel(level), limit)
    ELSE [level |-> level, remainingXp |-> remainingXp]

\* The while loop of levelFromXp, from (level, remainingXp) to its exit.  The
\* loop is run in four stretches of levels; a stretch entered after the break
\* stops at once, so the stretches compose to the one loop.
LevelWalk(level, remainingXp) ==
    LET q1 == LevelLoop(level, remainingXp, MAX_LEVEL \div 4)
        q2 == LevelLoop(q1.level, q1.remainingXp, MAX_LEVEL \div 2)
        q3 == LevelLoop(q2.level, q2.remainingXp, 3 * (MAX_LEVEL \div 4))
    IN LevelLoop(q3.level, q3.remainingXp, MAX_LEVEL)

levelFromXp_capped(totalXp) ==
    LET w == LevelWalk(1, totalXp)
        xpToNext == xpRequiredForLevel(w.level)
    IN [level |-> w.level,
        currentXp |-> Min(w.remainingXp, xpToNext),
        xpToNext |-> xpToNext,
        progress |-> Min((200 * w.remainingXp + xpToNext) \div (2 * xpToNext), 100)]

\* Math.round(Math.min((remainingXp / xpToNext) * 100, 100)), round half up
levelFromXp(totalXp) ==
    LET w == LevelWalk(1, totalXp)
        xpToNext == xpRequiredForLevel(w.level)
    IN [level |-> w.level,
        currentXp |-> w.remainingXp,
        xpToNext |-> xpToNext,
        progress |-> Min((200 * w.remainingXp + xpToNext) \div (2 * xpToNext), 100)]

LevelIdle ==
    /\ lvlCall = [level |-> 0, stage |-> "none"]
    /\ lvlResult = [level |-> 0, currentXp |-> 0, xpToNext |-> 0, progress |-> 0]

LevelInit ==
    /\ lvlCall \in [level : 0..MaxLevelArg, stage : {"level"}]
    /\ lvlResult = [level |-> 0, currentXp |-> 0, xpToNext |-> 0, progress |-> 0]

\* XP totals around every level boundary: the total that completes level L, less
\* one, plus one, and plus half of the next level
TotalXpOffsets(level) == {-1, 0, 1, xpRequiredForLevel(level + 1) \div 2}

TotalXpInit ==
    /\ \E level \in 0..MaxLevelArg :
           \E off \in TotalXpOffsets(level) :
               /\ cumulativeXpForLevel(level) + off >= 0
               /\ lvlCall = [level |-> level, stage |-> "xp",
                             totalXp |-> cumulativeXpForLevel(level) + off]
    /\ lvlResult = [level |-> 0, currentXp |-> 0, xpToNext |-> 0, progress |-> 0]

\* cumulativeXpForLevel(L) is computed for the drawn level
ApplyCumulativeXp ==
    /\ lvlCall.stage = "level"
    /\ lvlCall' = [level |-> lvlCall.level, stage |-> "xp",
                   totalXp |-> cumulativeXpForLevel(lvlCall.level)]
    /\ UNCHANGED lvlResult
    /\ UNCHANGED <<ledgerVars, streakVars, bonusVars, engineVars>>

\* levelFromXp is applied to that total
ApplyLevelFromXp ==
    /\ lvlCall.stage = "xp"
    /\ lvlCall' = [lvlCall EXCEPT !.stage = "done"]
    /\ lvlResult' = levelFromXp(lvlCall.totalXp)
    /\ UNCHANGED <<ledgerVars, streakVars, bonusVars, engineVars>>

----------------------------------------------------------------------------
(* Streak calculator.  Time is in minutes; a calendar date is the number of *)
(* whole days since the epoch (the YYYY-MM-DD prefix of toISOString).  The  *)
(* server's local time is UTC, so setDate(getDate() - 1) moves a Date back  *)
(* by exactly 24 hours.                                                      *)

MinutesPerHour == 60

MinutesPerDay == 24 * MinutesPerHour

WindowDays == 90

MaxGracePeriodHours == 12

\* getStreakDay: the date of (timestamp - gracePeriodHours hours)
getStreakDay_plus(timestamp, grace) ==
    (timestamp + grace * MinutesPerHour) \div MinutesPerDay

getStreakDay(timestamp, grace) ==
    (timestamp - grace * MinutesPerHour) \div MinutesPerDay

\* Map.get(day) || 0
TasksOnDay(byDay, day) == IF day \in DOMAIN byDay THEN byDay[day] ELSE 0

\* db.taskAssignments.find({status: 'approved', approved_at: {$gte: ninetyDaysAgo}})
QueryCompletions(all, at) ==
    {i \in 1..Len(all) : all[i] >= at - WindowDays * MinutesPerDay}

\* The grouping loop: completionsByDay.set(day, (get(day) || 0) + 1)
GroupByDay(all, at, grace) ==
    LET found == QueryCompletions(all, at)
        days == {getStreakDay(all[i], grace) : i \in found}
    IN [d \in days |->
           Cardinality({i \in found : getStreakDay(all[i], grace) = d})]

NoStreakResult ==
    [currentStreak |-> 0, streakAtRisk |-> FALSE, completedToday |-> 0, requiredDaily |-> 0]

NoDayResult == [called |-> FALSE, day |-> 0]

StreakIdle ==
    /\ gracePeriodHours = 4
    /\ minimumTasksPerDay = 1
    /\ now = 0
    /\ completions = <<>>
    /\ dayCall = 0
    /\ dayResult = NoDayResult
    /\ calcPc = "idle"
    /\ completionsByDay = <<>>
    /\ checkDate = 0
    /\ currentStreak = 0
    /\ streakResult = NoStreakResult

(* getStreakDay on its own *)

\* Timestamps every half hour of three days around the epoch
DayInputs == {d * MinutesPerDay + h * 30 : d \in -1..1, h \in 0..47}

DayInit ==
    /\ gracePeriodHours \in 0..MaxGracePeriodHours
    /\ dayCall \in DayInputs
    /\ dayResult = NoDayResult
    /\ minimumTasksPerDay = 1
    /\ now = 0
    /\ completions = <<>>
    /\ calcPc = "idle"
    /\ completionsByDay = <<>>
    /\ checkDate = 0
    /\ currentStreak = 0
    /\ streakResult = NoStreakResult

ApplyGetStreakDay ==
    /\ ~dayResult.called
    /\ dayResult' = [called |-> TRUE, day |-> getStreakDay(dayCall, gracePeriodHours)]
    /\ UNCHANGED <<gracePeriodHours, minimumTasksPerDay, now, completions, dayCall,
                   calcPc, completionsByDay, checkDate, currentStreak, streakResult>>
    /\ UNCHANGED <<ledgerVars, levelVars, bonusVars, engineVars>>

(* calculateStreak over a store of approved completions *)

MaxCompletions == 2

MaxDays == 2

MaxMinimumTasks == 2

GraceChoices == {0, 4, MaxGracePeriodHours}

\* 01:30 and 13:00 on day 0
StartTimes == {90, 780}

AdvanceSteps == {MinutesPerDay \div 2, MinutesPerDay}

\* Length, in days, of the run of qualifying days that ends the day before day 0
PreRunChoices == {0, 2, WindowDays + 2}

\* perDay approvals at 12:00 on each of the days -run .. -1, oldest first
PreHistory(run, perDay) ==
    [i \in 1..(run * perDay) |->
        (((i - 1) \div perDay) - run) * MinutesPerDay + 12 * MinutesPerHour]

StreakInit ==
    /\ gracePeriodHours \in GraceChoices
    /\ minimumTasksPerDay \in 1..MaxMinimumTasks
    /\ now \in StartTimes
    /\ \E run \in PreRunChoices : completions = PreHistory(run, minimumTasksPerDay)
    /\ dayCall = 0
    /\ dayResult = NoDayResult
    /\ calcPc = "idle"
    /\ completionsByDay = <<>>
    /\ checkDate = 0
    /\ currentStreak = 0
    /\ streakResult = NoStreakResult

calcVars == <<completionsByDay, checkDate, currentStreak, streakResult>>

\* A parent approves an assignment of the child: approved_at = new Date()
ApproveCompletion ==
    /\ calcPc \in {"idle", "done"}
    /\ Cardinality({i \in 1..Len(completions) : completions[i] >= 0}) < MaxCompletions
    /\ completions' = Append(completions, now)
    /\ calcPc' = "idle"
    /\ UNCHANGED <<gracePeriodHours, minimumTasksPerDay, now, dayCall, dayResult, calcVars>>
    /\ UNCHANGED <<ledgerVars, levelVars, bonusVars, engineVars>>

AdvanceClock(dt) ==
    /\ calcPc \in {"idle", "done"}
    /\ now + dt <= MaxDays * MinutesPerDay
    /\ now' = now + dt
    /\ calcPc' = "idle"
    /\ UNCHANGED <<gracePeriodHours, minimumTasksPerDay, completions, dayCall, dayResult,
                   calcVars>>
    /\ UNCHANGED <<ledgerVars, levelVars, bonusVars, engineVars>>

\* calculateStreak up to the loop: the query, the grouping, the loop's start
CalcQuery ==
    /\ calcPc \in {"idle", "done"}
    /\ completionsByDay' = GroupByDay(completions, now, gracePeriodHours)
    /\ checkDate' = now
    /\ currentStreak' = 0
    /\ calcPc' = "loop"
    /\ UNCHANGED <<gracePeriodHours, minimumTasksPerDay, now, completions, dayCall,
                   dayResult, streakResult>>
    /\ UNCHANGED <<ledgerVars, levelVars, bonusVars, engineVars>>

isToday(day) == day = getStreakDay(now, gracePeriodHours)

\* The most iterations of while (true) that are followed; a walk that ends does so
\* within the 90 days of the query
MaxWalk == 100

\* One iteration of while (true)
CalcLoop_noskip ==
    LET checkDay == getStreakDay(checkDate, gracePeriodHours)
        tasksOnDay == TasksOnDay(completionsByDay, checkDay)
    IN /\ calcPc = "loop"
       /\ currentStreak < MaxWalk
       /\ IF tasksOnDay >= minimumTasksPerDay
          THEN /\ currentStreak' = currentStreak + 1
               /\ checkDate' = checkDate - MinutesPerDay
               /\ calcPc' = calcPc
          ELSE /\ calcPc' = "risk"
               /\ UNCHANGED <<currentStreak, checkDate>>
       /\ UNCHANGED <<gracePeriodHours, minimumTasksPerDay, now, completions, dayCall,
                      dayResult, completionsByDay, streakResult>>
       /\ UNCHANGED <<ledgerVars, levelVars, bonusVars, engineVars>>

CalcLoop ==
    LET checkDay == getStreakDay(checkDate, gracePeriodHours)
        tasksOnDay == TasksOnDay(completionsByDay, checkDay)
    IN /\ calcPc = "loop"
       /\ currentStreak < MaxWalk
       /\ IF tasksOnDay >= minimumTasksPerDay
          THEN /\ currentStreak' = currentStreak + 1
               /\ checkDate' = checkDate - MinutesPerDay
               /\ calcPc' = calcPc
          ELSE IF currentStreak = 0 /\ isToday(checkDay)
          THEN /\ checkDate' = checkDate - MinutesPerDay
               /\ UNCHANGED <<currentStreak, calcPc>>
          ELSE /\ calcPc' = "risk"
               /\ UNCHANGED <<currentStreak, checkDate>>
       /\ UNCHANGED <<gracePeriodHours, minimumTasksPerDay, now, completions, dayCall,
                      dayResult, completionsByDay, streakResult>>
       /\ UNCHANGED <<ledgerVars, levelVars, bonusVars, engineVars>>

CalcReturn_zero ==
    LET todayCount == TasksOnDay(completionsByDay, getStreakDay(now, gracePeriodHours))
    IN /\ calcPc = "risk"
       /\ streakResult' =
              [currentStreak |-> currentStreak,
               streakAtRisk |-> currentStreak > 0 /\ todayCount = 0,
               completedToday |-> todayCount,
               requiredDaily |-> minimumTasksPerDay]
       /\ calcPc' = "done"
       /\ UNCHANGED <<gracePeriodHours, minimumTasksPerDay, now, completions, dayCall,
                      dayResult, completionsByDay, checkDate, currentStreak>>
       /\ UNCHANGED <<ledgerVars, levelVars, bonusVars, engineVars>>

\* After the loop: todayCount, streakAtRisk and the StreakResult
CalcReturn ==
    LET todayCount == TasksOnDay(completionsByDay, getStreakDay(now, gracePeriodHours))
    IN /\ calcPc = "risk"
       /\ streakResult' =
              [currentStreak |-> currentStreak,
               streakAtRisk |-> currentStreak > 0 /\ todayCount < minimumTasksPerDay,
               completedToday |-> todayCount,
               requiredDaily |-> minimumTasksPerDay]
       /\ calcPc' = "done"
       /\ UNCHANGED <<gracePeriodHours, minimumTasksPerDay, now, completions, dayCall,
                      dayResult, completionsByDay, checkDate, currentStreak>>
       /\ UNCHANGED <<ledgerVars, levelVars, bonusVars, engineVars>>

----------------------------------------------------------------------------
(* Streak bonus *)

STREAK_MILESTONES == {3, 7, 14, 30, 60, 100}

MaxBasePoints == 100

MaxStreakDays == 200

\* Math.min(1 + streakDays * STREAK_MULTIPLIER, MAX_STREAK_BONUS), in hundredths:
\* STREAK_MULTIPLIER = 0.05 is 5, MAX_STREAK_BONUS = 2.5 is 250
StreakMultiplier_nocap(streakDays) == 100 + streakDays * 5

StreakMultiplier(streakDays) == Min(100 + streakDays * 5, 250)

\* Math.round(basePoints * (multiplier - 1)) for a product of p hundredths.
\* Math.round rounds half up; the double product of an exact tie (p ends in
\* 50) can fall just below the tie, so either neighbour can be returned.
RoundHundredths(p) ==
    IF p % 100 = 50 THEN {p \div 100, p \div 100 + 1} ELSE {(p + 50) \div 100}

MilestoneBonus_atleast(streakDays) ==
    IF \E m \in STREAK_MILESTONES : streakDays >= m THEN streakDays * 5 ELSE 0

MilestoneBonus(streakDays) ==
    IF streakDays \in STREAK_MILESTONES THEN streakDays * 5 ELSE 0

NoBonusResult ==
    [called |-> FALSE, basePoints |-> 0, streakMultiplier |-> 0, streakBonus |-> 0,
     milestoneBonus |-> 0, totalPoints |-> 0,
     breakdown |-> [base |-> 0, streak |-> 0, milestone |-> 0]]

BonusIdle ==
    /\ bonusCall = [basePoints |-> 0, streakDays |-> 0]
    /\ bonusResult = NoBonusResult

BonusInit ==
    /\ bonusCall \in [basePoints : 0..MaxBasePoints, streakDays : 0..MaxStreakDays]
    /\ bonusResult = NoBonusResult

\* calculateStreakBonus(basePoints, streakDays)
calculateStreakBonus ==
    LET basePoints == bonusCall.basePoints
        streakDays == bonusCall.streakDays
        multiplier == StreakMultiplier(streakDays)
        milestoneBonus == MilestoneBonus(streakDays)
    IN /\ ~bonusResult.called
       /\ \E bonusPoints \in RoundHundredths(basePoints * (multiplier - 100)) :
              LET totalPoints == basePoints + bonusPoints
              IN bonusResult' =
                     [called |-> TRUE,
                      basePoints |-> basePoints,
                      streakMultiplier |-> multiplier,
                      streakBonus |-> bonusPoints,
                      milestoneBonus |-> milestoneBonus,
                      totalPoints |-> totalPoints + milestoneBonus,
                      breakdown |-> [base |-> basePoints, streak |-> bonusPoints,
                                     milestone |-> milestoneBonus]]
       /\ UNCHANGED bonusCall
       /\ UNCHANGED <<ledgerVars, levelVars, streakVars, engineVars>>

----------------------------------------------------------------------------
(* Early completion bonus *)

\* Math.round(x) for x = p hundredths (round half up); basePoints * 0.25,
\* 0.15, 0.10, 0.05 and xp * 1.25, 1.1 round this way in double
\* arithmetic for every integer up to 1000.
RoundHalfUp(p) == (p + 50) \div 100

\* The tier of hoursEarly = (dueDate - completedAt) / (1000 * 60 * 60), as a
\* percentage; early is dueDate - completedAt in minutes
EarlyPercent_strict(early) ==
    IF early > 48 * MinutesPerHour THEN 25
    ELSE IF early > 24 * MinutesPerHour THEN 15
    ELSE IF early > 12 * MinutesPerHour THEN 10
    ELSE IF early > 6 * MinutesPerHour THEN 5
    ELSE 0

EarlyPercent(early) ==
    IF early >= 48 * MinutesPerHour THEN 25
    ELSE IF early >= 24 * MinutesPerHour THEN 15
    ELSE IF early >= 12 * MinutesPerHour THEN 10
    ELSE IF early >= 6 * MinutesPerHour THEN 5
    ELSE 0

calculateEarlyCompletionBonus(basePoints, dueDate, completedAt) ==
    IF completedAt >= dueDate THEN 0
    ELSE RoundHalfUp(basePoints * EarlyPercent(dueDate - completedAt))

MaxEarlyBase == 40

\* Due date of the task under test: day 5, 18:00
EarlyDueDate == 5 * MinutesPerDay + 18 * MinutesPerHour

\* Minutes between completion and due date (negative: completed late)
EarlyOffsets ==
    {-60, 0, 1, 359, 360, 361, 719, 720, 721, 1439, 1440, 1441, 2879, 2880, 2881, 6000}

NoEarlyResult == [called |-> FALSE, bonus |-> 0]

EarlyIdle ==
    /\ earlyCall = [basePoints |-> 0, dueDate |-> 0, completedAt |-> 0]
    /\ earlyResult = NoEarlyResult

EarlyInit ==
    /\ \E b \in (0..MaxEarlyBase) \cup {100}, off \in EarlyOffsets :
           earlyCall = [basePoints |-> b, dueDate |-> EarlyDueDate,
                        completedAt |-> EarlyDueDate - off]
    /\ earlyResult = NoEarlyResult

ApplyEarlyCompletionBonus ==
    /\ ~earlyResult.called
    /\ earlyResult' =
           [called |-> TRUE,
            bonus |-> calculateEarlyCompletionBonus(earlyCall.basePoints,
                          earlyCall.dueDate, earlyCall.completedAt)]
    /\ UNCHANGED earlyCall
    /\ UNCHANGED exceptEarly

----------------------------------------------------------------------------
(* XP earned from a task *)

\* baseXp[task.difficulty] || 15
BaseXp(difficulty) ==
    CASE difficulty = "easy" -> 10
      [] difficulty = "medium" -> 20
      [] difficulty = "hard" -> 35
      [] OTHER -> 15

\* The multiplier, in hundredths, for hoursEarly = early / 60
XpMultiplier(early) ==
    IF early > 24 * MinutesPerHour THEN 125
    ELSE IF early > 6 * MinutesPerHour THEN 110
    ELSE 100

\* calculateTaskXp(task), evaluated when the clock reads clock: the bonus is
\* taken from new Date() and Date.now(), not from the completion time
calculateTaskXp(task, clock) ==
    IF task.hasDueDate /\ clock < task.dueDate
    THEN RoundHalfUp(BaseXp(task.difficulty) * XpMultiplier(task.dueDate - clock))
    ELSE RoundHalfUp(BaseXp(task.difficulty) * 100)

\* Due date of the task under test: day 5, 18:00
XpDueDate == 5 * MinutesPerDay + 18 * MinutesPerHour

\* Minutes between completion and due date
XpOffsets == {-60, 0, 360, 361, 1440, 1441, 3000}

\* Minutes between the child's completion and the parent's approval
ApprovalDelays == {0, 1, 120, 1500}

NoXpResult == [called |-> FALSE, xp |-> 0]

XpIdle ==
    /\ xpCall = [difficulty |-> "none", hasDueDate |-> FALSE, dueDate |-> 0,
                 completedAt |-> 0, clock |-> 0]
    /\ xpResult = NoXpResult

XpInit ==
    /\ \E d \in {"easy", "medium", "hard", "none"}, has \in BOOLEAN,
          off \in XpOffsets, delay \in ApprovalDelays :
           xpCall = [difficulty |-> d, hasDueDate |-> has,
                     dueDate |-> IF has THEN XpDueDate ELSE 0,
                     completedAt |-> XpDueDate - off,
                     clock |-> XpDueDate - off + delay]
    /\ xpResult = NoXpResult

\* approveTask evaluates calculateTaskXp(task) while it processes the approval
ApplyTaskXp ==
    /\ ~xpResult.called
    /\ xpResult' =
           [called |-> TRUE,
            xp |-> calculateTaskXp([difficulty |-> xpCall.difficulty,
                                    hasDueDate |-> xpCall.hasDueDate,
                                    dueDate |-> xpCall.dueDate], xpCall.clock)]
    /\ UNCHANGED xpCall
    /\ UNCHANGED exceptXp

----------------------------------------------------------------------------
(* The core functions on arguments of either sign *)

MaxMagnitude == 3

AnySignBonusInit ==
    /\ bonusCall \in [basePoints : (-MaxMagnitude)..MaxMagnitude,
                      streakDays : (-MaxMagnitude)..MaxMagnitude]
    /\ bonusResult = NoBonusResult

AnySignLevelInit ==
    /\ lvlCall \in [level : (-MaxMagnitude)..MaxMagnitude, stage : {"required"}]
    /\ lvlResult = [returned |-> FALSE, required |-> 0]

\* xpRequiredForLevel(level) is applied to the drawn level
ApplyXpRequired ==
    /\ lvlCall.stage = "required"
    /\ lvlCall' = [lvlCall EXCEPT !.stage = "done"]
    /\ lvlResult' = [returned |-> TRUE, required |-> xpRequiredForLevel(lvlCall.level)]
    /\ UNCHANGED <<ledgerVars, streakVars, bonusVars, engineVars>>

----------------------------------------------------------------------------
(* Family leaderboard *)

\* DEFAULT_WEIGHTS, in hundredths
DEFAULT_WEIGHTS == [weeklyPoints |-> 100, weeklyTasks |-> 500,
                    streakBonus |-> 200, achievementBonus |-> 1000]

\* Minute 0 of the clock is Sunday 2026-11-01 00:00 local time; the calendar
\* operations below are those of November 2026.
At(day, hour) == day * MinutesPerDay + hour * MinutesPerHour

\* start.setHours(0, 0, 0, 0)
StartOfDay(t) == (t \div MinutesPerDay) * MinutesPerDay

\* Date.getDay(): 0 is Sunday
getDay(t) == (t \div MinutesPerDay) % 7

\* Date.getDate(): the day of the month, 1-based
getDate(t) == (t \div MinutesPerDay) + 1

\* Days from a date in November 2020 to the same date in 2026
DaysSince2020 == 2191

\* LeaderboardService.getDateRange(period), evaluated at clock
getDateRange(period, clock) ==
    [start |-> CASE period = "daily" -> StartOfDay(clock)
                 [] period = "weekly" ->
                        StartOfDay(clock - getDay(clock) * MinutesPerDay)
                 [] period = "monthly" ->
                        StartOfDay(clock - (getDate(clock) - 1) * MinutesPerDay)
                 [] period = "all-time" -> clock - DaysSince2020 * MinutesPerDay
                 [] OTHER -> clock,
     end |-> clock]

InRange(t, range) == t >= range.start /\ t <= range.end

\* db.users.find({family_id, role: 'child', is_active: true})
FindChildren(familyId) ==
    SelectSeq(boardUsers,
              LAMBDA u : u.family = familyId /\ u.role = "child" /\ u.active)

\* The $match / $group aggregate over points_ledger
EarnedPoints_alltypes(childId, range) ==
    LET rows == SelectSeq(boardLedger,
                    LAMBDA r : r.child = childId /\ InRange(r.createdAt, range))
    IN SumSeq([i \in 1..Len(rows) |-> rows[i].amount])
EarnedPoints(childId, range) ==
    LET rows == SelectSeq(boardLedger,
                    LAMBDA r : /\ r.child = childId
                               /\ r.type = "earned"
                               /\ InRange(r.createdAt, range))
    IN SumSeq([i \in 1..Len(rows) |-> rows[i].amount])

\* db.taskAssignments.count({child_id, status: 'approved', approved_at in range})
ApprovedTasks(childId, range) ==
    Len(SelectSeq(boardAssignments,
            LAMBDA a : /\ a.child = childId
                       /\ a.status = "approved"
                       /\ InRange(a.approvedAt, range)))

\* db.childAchievements.count({child_id})
AchievementCount(childId) ==
    Len(SelectSeq(boardAchievements, LAMBDA a : a.child = childId))

\* calculateScore, in hundredths
calculateScore(data) ==
    data.weeklyPoints * DEFAULT_WEIGHTS.weeklyPoints
    + data.weeklyTasks * DEFAULT_WEIGHTS.weeklyTasks
    + data.currentStreak * DEFAULT_WEIGHTS.streakBonus
    + data.achievements * DEFAULT_WEIGHTS.achievementBonus

\* The entry pushed for one child, rank still 0
BoardEntry(child, range) ==
    LET data == [weeklyPoints |-> EarnedPoints(child.id, range),
                 weeklyTasks |-> ApprovedTasks(child.id, range),
                 currentStreak |-> boardProfiles[child.id],
                 achievements |-> AchievementCount(child.id)]
    IN [childId |-> child.id,
        score |-> RoundHalfUp(calculateScore(data)),
        rank |-> 0,
        weeklyPoints |-> data.weeklyPoints,
        weeklyTasks |-> data.weeklyTasks,
        currentStreak |-> data.currentStreak,
        achievements |-> data.achievements]

\* entries.sort((a, b) => b.score - a.score): Array.prototype.sort is stable,
\* an element goes behind the elements that do not compare after it
InsertEntry_before(sorted, e) ==
    LET k == Cardinality({i \in 1..Len(sorted) : sorted[i].score > e.score})
    IN SubSeq(sorted, 1, k) \o <<e>> \o SubSeq(sorted, k + 1, Len(sorted))
InsertEntry(sorted, e) ==
    LET k == Cardinality({i \in 1..Len(sorted) : sorted[i].score >= e.score})
    IN SubSeq(sorted, 1, k) \o <<e>> \o SubSeq(sorted, k + 1, Len(sorted))

RECURSIVE SortByScore(_)
SortByScore(entries) ==
    IF entries = <<>> THEN <<>>
    ELSE InsertEntry(SortByScore(SubSeq(entries, 1, Len(entries) - 1)),
                     entries[Len(entries)])

\* entries.forEach((entry, index) => { entry.rank = index + 1 })
AssignRanks(entries) ==
    [i \in 1..Len(entries) |-> [entries[i] EXCEPT !.rank = i]]

getFamilyLeaderboard(familyId, period, clock) ==
    LET range == getDateRange(period, clock)
        children == FindChildren(familyId)
        entries == [i \in 1..Len(children) |-> BoardEntry(children[i], range)]
    IN AssignRanks(SortByScore(entries))

\* The users table: a parent and three children of family f1, a deactivated
\* child of f1 and a child of another family
BoardUserRows(k3Active) ==
    << [id |-> "p1", family |-> "f1", role |-> "parent", active |-> TRUE],
       [id |-> "k1", family |-> "f1", role |-> "child", active |-> TRUE],
       [id |-> "x1", family |-> "f2", role |-> "child", active |-> TRUE],
       [id |-> "k2", family |-> "f1", role |-> "child", active |-> TRUE],
       [id |-> "k4", family |-> "f1", role |-> "child", active |-> FALSE],
       [id |-> "k3", family |-> "f1", role |-> "child", active |-> k3Active] >>

\* The clock of the call: Tuesday 2026-11-10 10:00
BoardNow == At(9, 10)

\* created_at / approved_at values: earlier today, the instant of the call,
\* the first minute of this week, earlier this month, last month, before 2020
EarlierToday == At(9, 9)
WeekStart == At(7, 0)
ThisMonth == At(3, 12)
LastMonth == At(-10, 12)
Before2020 == At(-2300, 12)

Row(type, amount, createdAt) ==
    [type |-> type, amount |-> amount, createdAt |-> createdAt]

\* Ledgers drawn for the children
FullLedgers ==
    { <<>>,
      <<Row("earned", 100, EarlierToday)>>,
      <<Row("earned", 30, EarlierToday), Row("earned", 20, BoardNow)>>,
      <<Row("earned", 50, WeekStart), Row("earned", 50, ThisMonth)>>,
      <<Row("earned", 100, EarlierToday), Row("bonus", 10, EarlierToday),
        Row("redeemed", -50, EarlierToday)>>,
      <<Row("earned", 50, LastMonth), Row("earned", 50, Before2020)>> }

Assignment(status, approvedAt) == [status |-> status, approvedAt |-> approvedAt]

AssignmentLists ==
    { <<>>,
      <<Assignment("approved", EarlierToday)>>,
      <<Assignment("approved", ThisMonth), Assignment("completed", 0)>> }

OfChild(childId, rows) ==
    [i \in 1..Len(rows) |-> [child |-> childId] @@ rows[i]]

Periods == {"daily", "weekly", "monthly", "all-time"}

NoBoardResult == [called |-> FALSE, entries |-> <<>>]

BoardIdle ==
    /\ boardUsers = <<>>
    /\ boardLedger = <<>>
    /\ boardAssignments = <<>>
    /\ boardProfiles = [c \in {} |-> 0]
    /\ boardAchievements = <<>>
    /\ boardCall = [familyId |-> "f1", period |-> "weekly", clock |-> 0]
    /\ boardResult = NoBoardResult

BoardInit ==
    /\ \E k3Active \in BOOLEAN : boardUsers = BoardUserRows(k3Active)
    /\ \E l1 \in FullLedgers,
          l2 \in {<<Row("earned", 100, EarlierToday)>>,
                  <<Row("earned", 50, WeekStart), Row("earned", 50, ThisMonth)>>},
          l3 \in {<<>>, <<Row("earned", 50, EarlierToday)>>} :
           boardLedger = OfChild("x1", <<Row("earned", 500, EarlierToday)>>)
                         \o OfChild("k1", l1) \o OfChild("k3", l3)
                         \o OfChild("k4", <<Row("earned", 500, EarlierToday)>>)
                         \o OfChild("k2", l2)
    /\ \E a1 \in AssignmentLists :
           boardAssignments = OfChild("k1", a1)
                              \o OfChild("x1", <<Assignment("approved", EarlierToday)>>)
    /\ \E s2 \in {0, 3} :
           boardProfiles = [c \in {"k1", "k2", "k3", "k4", "x1"} |->
                               IF c = "k2" THEN s2 ELSE 0]
    /\ \E n3 \in {0, 1} :
           boardAchievements =
               [i \in 1..n3 |-> [child |-> "k3", achievement |-> "FirstSteps"]]
               \o <<[child |-> "x1", achievement |-> "FirstSteps"]>>
    /\ \E period \in Periods :
           boardCall = [familyId |-> "f1", period |-> period, clock |-> BoardNow]
    /\ boardResult = NoBoardResult

ApplyFamilyLeaderboard ==
    /\ ~boardResult.called
    /\ boardResult' =
           [called |-> TRUE,
            entries |-> getFamilyLeaderboard(boardCall.familyId, boardCall.period,
                                             boardCall.clock)]
    /\ UNCHANGED <<boardUsers, boardLedger, boardAssignments, boardProfiles,
                   boardAchievements, boardCall>>
    /\ UNCHANGED exceptBoard

----------------------------------------------------------------------------
(* Task approval: TaskService.approveTask and AchievementEngine.checkAchievements *)

\* SYSTEM_ACHIEVEMENTS, in the order db.achievements.find returns them
SYSTEM_ACHIEVEMENTS ==
    << [id |-> "FirstSteps", type |-> "tasks_completed", value |-> 1,
        config |-> "none", pointsReward |-> 10],
       [id |-> "TaskWarrior", type |-> "tasks_completed", value |-> 100,
        config |-> "none", pointsReward |-> 100],
       [id |-> "WeekStrong", type |-> "streak_days", value |-> 7,
        config |-> "none", pointsReward |-> 50],
       [id |-> "CleaningChampion", type |-> "category_master", value |-> 25,
        config |-> "cleaning", pointsReward |-> 50],
       [id |-> "EarlyBird", type |-> "time_based", value |-> 10,
        config |-> "08:00", pointsReward |-> 75] >>

\* The concurrent approveTask calls and the assignment each one approves
Calls == {"p1", "p2"}

\* The second call approves the second assignment, or the first one once
\* more when the child has only that one
AssignmentOf ==
    [p \in Calls |->
        IF p = "p1" \/ "a2" \notin DOMAIN taskAssignments THEN "a1" ELSE "a2"]

AssignmentIds == {"a1", "a2"}

\* pointsResult.totalPoints of a task: a task row may carry points_value 0
TaskPoints == {0, 10}

\* child_id of the assignments under approval
ApprovedChild == "c1"

\* Achievement ids of the child_achievements rows of child c within rows
UnlockedIn(rows, c) ==
    {rows[i].achievement : i \in {j \in 1..Len(rows) : rows[j].child = c}}

\* db.taskAssignments.count({child_id, status: 'approved', 'task.category'}):
\* the rows under approval plus the older rows
CategoryCount(c, category) ==
    taskHistory.categoryApproved[category]
    + Cardinality({a \in DOMAIN taskAssignments :
          /\ taskAssignments[a].child = c
          /\ taskAssignments[a].status = "approved"
          /\ taskAssignments[a].category = category})

\* AchievementEngine.checkUnlockCriteria; categoryCount is only read for
\* category_master.  time_based has no case and takes the default branch.
checkUnlockCriteria(child, achievement, categoryCount, earlyCount) ==
    CASE achievement.type = "streak_days" ->
             child.current_streak_days >= achievement.value
      [] achievement.type = "tasks_completed" ->
             child.total_tasks_completed >= achievement.value
      [] achievement.type = "points_earned" ->
             child.total_points_earned >= achievement.value
      [] achievement.type = "category_master" ->
             categoryCount >= achievement.value
      [] OTHER -> FALSE

\* AchievementEngine.unlockAchievement on the tables in st; st.threw is set
\* when awardPoints throws, which leaves the inserted row behind and skips
\* the notification.
UnlockIn(st, c, achievement) ==
    LET new == awardPointsRow(st.ledger, achievement.pointsReward,
                              "achievement_unlock")
        rewarded == achievement.pointsReward > 0
        awardOk == ~rewarded \/ validate_points_balance(st.ledger, new)
        row == [child |-> c, achievement |-> achievement.id]
    IN IF achievement.id \in UnlockedIn(st.childAchievements, c) THEN st
       ELSE [childAchievements |-> Append(st.childAchievements, row),
             ledger |-> IF rewarded THEN LedgerAfterInsert(st.ledger, new)
                        ELSE st.ledger,
             lastInsert |-> IF rewarded THEN InsertRecord(c, st.ledger, new)
                            ELSE st.lastInsert,
             profile |-> IF rewarded /\ awardOk
                         THEN [st.profile EXCEPT
                                  !.points_balance = @ + achievement.pointsReward,
                                  !.total_points_earned = @ + achievement.pointsReward]
                         ELSE st.profile,
             notifications |->
                 IF awardOk
                 THEN Append(st.notifications,
                             [user |-> c, type |-> "achievement_unlocked",
                              achievement |-> achievement.id])
                 ELSE st.notifications,
             threw |-> ~awardOk]

\* The for loop of checkAchievements from catalog entry i on; child is the
\* profile read before the loop.  An exception leaves the loop.
RECURSIVE CheckLoopFrom(_, _, _, _)
CheckLoopFrom(st, c, child, i) ==
    IF i > Len(SYSTEM_ACHIEVEMENTS) \/ st.threw THEN st
    ELSE LET achievement == SYSTEM_ACHIEVEMENTS[i]
             unlocked == checkUnlockCriteria(child, achievement,
                             CategoryCount(c, achievement.config),
                             taskHistory.earlyCompletions)
         IN CheckLoopFrom(IF unlocked THEN UnlockIn(st, c, achievement) ELSE st,
                          c, child, i + 1)

\* What checkAchievements hands back: the function has no return statement
checkAchievementsResult(before, after) == [defined |-> FALSE, ids |-> {}]

NoCheck ==
    [ran |-> FALSE, child |-> [current_streak_days |-> 0, total_tasks_completed |-> 0,
                               total_points_earned |-> 0],
     cleaning |-> 0, early |-> 0, before |-> {}, after |-> {}]

NoLocal ==
    [prior |-> 0, failedAt |-> "none", check |-> NoCheck,
     newAchievements |-> [defined |-> FALSE, ids |-> {}]]

NoProfile ==
    [points_balance |-> 0, total_points_earned |-> 0, total_tasks_completed |-> 0,
     current_streak_days |-> 0, longest_streak_days |-> 0, experience_points |-> 0]

ApproveIdle ==
    /\ childProfiles = [c \in Children |-> NoProfile]
    /\ taskAssignments = [a \in {} |-> 0]
    /\ taskHistory = [tasksBefore |-> 0, streakBefore |-> 0, earlyCompletions |-> 0,
                      categoryApproved |-> [k \in {"cleaning", "homework", "none"} |-> 0]]
    /\ approvePc = [p \in Calls |-> "idle"]
    /\ approveLocal = [p \in Calls |-> NoLocal]
    /\ emitted = <<>>

\* The child before the two approvals.  The ledger rows older than the ones
\* modelled all have points_amount 0 (no other row passes the trigger), so
\* they are left out of ledger; the counters and child_achievements carry what
\* the older approvals left behind.
ApproveInitOf(ids) ==
    /\ \E tasks \in {0, 98}, streak \in {0, 6}, cleaning \in {0, 24}, early \in {0, 10} :
           /\ tasks = 0 => streak = 0
           /\ taskHistory = [tasksBefore |-> tasks, streakBefore |-> streak,
                             earlyCompletions |-> early,
                             categoryApproved |->
                                 [k \in {"cleaning", "homework", "none"} |->
                                     IF k = "cleaning" THEN cleaning ELSE 0]]
           /\ childProfiles =
                  [c \in Children |->
                      IF c = ApprovedChild
                      THEN [NoProfile EXCEPT !.total_tasks_completed = tasks,
                                             !.current_streak_days = streak,
                                             !.longest_streak_days = streak,
                                             !.experience_points = 10 * tasks]
                      ELSE NoProfile]
           /\ childAchievements =
                  IF tasks > 0
                  THEN <<[child |-> ApprovedChild, achievement |-> "FirstSteps"]>>
                  ELSE <<>>
    /\ \E points \in [ids -> TaskPoints] :
           taskAssignments =
               [a \in ids |->
                   [child |-> ApprovedChild,
                    category |-> IF a = "a1" THEN "cleaning" ELSE "homework",
                    totalPoints |-> points[a],
                    status |-> "completed",
                    awarded |-> FALSE, points_awarded |-> 0, xp_awarded |-> 0]]
    /\ ledger = [c \in Children |-> <<>>]
    /\ notifications = <<>>
    /\ lastInsert = NoInsert
    /\ unlockRuns = [c \in Children |-> [a \in Achievements |-> 0]]
    /\ approvePc = [p \in Calls |-> "start"]
    /\ approveLocal = [p \in Calls |-> NoLocal]
    /\ emitted = <<>>

ApproveInit == ApproveInitOf(AssignmentIds)

\* One completed assignment, and two approveTask calls for it
ReapproveInit == ApproveInitOf({"a1"})

\* xpEngine.calculateTaskXp(task) for the tasks approved here: easy tasks
\* without a due date
ApprovalXp ==
    calculateTaskXp([difficulty |-> "easy", hasDueDate |-> FALSE, dueDate |-> 0], 0)

\* approveTask up to db.taskAssignments.update: the assignment is written as
\* approved before any point is awarded
ApproveUpdate(p) ==
    LET a == AssignmentOf[p]
    IN /\ approvePc[p] = "start"
       /\ taskAssignments' =
              [taskAssignments EXCEPT ![a] =
                  [@ EXCEPT !.status = "approved", !.awarded = TRUE,
                            !.points_awarded = taskAssignments[a].totalPoints,
                            !.xp_awarded = ApprovalXp]]
       /\ approvePc' = [approvePc EXCEPT ![p] = "awardRead"]
       /\ UNCHANGED <<childProfiles, taskHistory, approveLocal, emitted>>
       /\ UNCHANGED <<ledgerVars, exceptApprove>>

\* pointsService.awardPoints, first half: read the balance the new row builds on
AwardPointsRead(p) ==
    LET c == taskAssignments[AssignmentOf[p]].child
    IN /\ approvePc[p] = "awardRead"
       /\ approveLocal' = [approveLocal EXCEPT ![p].prior = LedgerSum(ledger[c])]
       /\ approvePc' = [approvePc EXCEPT ![p] = "awardInsert"]
       /\ UNCHANGED <<childProfiles, taskAssignments, taskHistory, emitted>>
       /\ UNCHANGED <<ledgerVars, exceptApprove>>

\* pointsService.awardPoints, second half: insert the 'earned' row declaring
\* balanceAfter = prior + amount and, when the trigger lets it in, move the
\* counters; a rejected insert throws out of approveTask
AwardPointsInsert(p) ==
    LET a == AssignmentOf[p]
        c == taskAssignments[a].child
        amount == taskAssignments[a].totalPoints
        new == LedgerRow("earned", amount, approveLocal[p].prior + amount,
                         "task_completion")
        ok == validate_points_balance(ledger[c], new)
    IN /\ approvePc[p] = "awardInsert"
       /\ ledger' = [ledger EXCEPT ![c] = LedgerAfterInsert(@, new)]
       /\ lastInsert' = InsertRecord(c, ledger[c], new)
       /\ childProfiles' =
              IF ok
              THEN [childProfiles EXCEPT
                       ![c].points_balance = @ + amount,
                       ![c].total_points_earned = @ + amount,
                       ![c].total_tasks_completed = @ + 1]
              ELSE childProfiles
       /\ approvePc' = [approvePc EXCEPT ![p] = IF ok THEN "awardXp" ELSE "failed"]
       /\ approveLocal' =
              [approveLocal EXCEPT ![p].failedAt = IF ok THEN @ ELSE "awardPoints"]
       /\ UNCHANGED <<taskAssignments, taskHistory, emitted>>
       /\ UNCHANGED <<childAchievements, notifications, unlockRuns>>
       /\ UNCHANGED exceptApprove

\* xpService.awardXp
AwardXp(p) ==
    LET a == AssignmentOf[p]
        c == taskAssignments[a].child
    IN /\ approvePc[p] = "awardXp"
       /\ childProfiles' =
              [childProfiles EXCEPT
                  ![c].experience_points = @ + taskAssignments[a].xp_awarded]
       /\ approvePc' = [approvePc EXCEPT ![p] = "check"]
       /\ UNCHANGED <<taskAssignments, taskHistory, approveLocal, emitted>>
       /\ UNCHANGED <<ledgerVars, exceptApprove>>

\* achievementEngine.checkAchievements(child_id, event), called before the
\* streak is updated
CheckAchievements(p) ==
    LET c == taskAssignments[AssignmentOf[p]].child
        child == childProfiles[c]
        st0 == [childAchievements |-> childAchievements, ledger |-> ledger[c],
                lastInsert |-> lastInsert, profile |-> child,
                notifications |-> notifications, threw |-> FALSE]
        st == CheckLoopFrom(st0, c, child, 1)
        before == UnlockedIn(childAchievements, c)
        after == UnlockedIn(st.childAchievements, c)
    IN /\ approvePc[p] = "check"
       /\ childAchievements' = st.childAchievements
       /\ ledger' = [ledger EXCEPT ![c] = st.ledger]
       /\ lastInsert' = st.lastInsert
       /\ notifications' = st.notifications
       /\ childProfiles' = [childProfiles EXCEPT ![c] = st.profile]
       /\ approveLocal' =
              [approveLocal EXCEPT
                  ![p].check =
                      [ran |-> TRUE,
                       child |-> [current_streak_days |-> child.current_streak_days,
                                  total_tasks_completed |-> child.total_tasks_completed,
                                  total_points_earned |-> child.total_points_earned],
                       cleaning |-> CategoryCount(c, "cleaning"),
                       early |-> taskHistory.earlyCompletions,
                       before |-> before, after |-> after],
                  ![p].newAchievements = checkAchievementsResult(before, after),
                  ![p].failedAt = IF st.threw THEN "checkAchievements" ELSE @]
       /\ approvePc' = [approvePc EXCEPT ![p] = IF st.threw THEN "failed" ELSE "streak"]
       /\ UNCHANGED <<taskAssignments, taskHistory, emitted>>
       /\ UNCHANGED unlockRuns
       /\ UNCHANGED exceptApprove

\* streakService.updateStreak: stores what calculateStreak returns.  Every
\* approval modelled here is stamped today, so the run that ended yesterday
\* grows by one as soon as one assignment of the child is approved.
UpdateStreak(p) ==
    LET c == taskAssignments[AssignmentOf[p]].child
        approvedToday == \E a \in DOMAIN taskAssignments :
                             /\ taskAssignments[a].child = c
                             /\ taskAssignments[a].status = "approved"
        streak == taskHistory.streakBefore + (IF approvedToday THEN 1 ELSE 0)
    IN /\ approvePc[p] = "streak"
       /\ childProfiles' =
              [childProfiles EXCEPT
                  ![c].current_streak_days = streak,
                  ![c].longest_streak_days = IF streak > @ THEN streak ELSE @]
       /\ approvePc' = [approvePc EXCEPT ![p] = "emit"]
       /\ UNCHANGED <<taskAssignments, taskHistory, approveLocal, emitted>>
       /\ UNCHANGED <<ledgerVars, exceptApprove>>

\* The emits at the end of approveTask: newAchievements.map(...) throws a
\* TypeError when newAchievements is undefined, before the first emit
EmitApproved(p) ==
    LET a == AssignmentOf[p]
        c == taskAssignments[a].child
        result == approveLocal[p].newAchievements
    IN /\ approvePc[p] = "emit"
       /\ IF result.defined
          THEN /\ emitted' =
                      emitted
                      \o <<[event |-> "task:approved", assignmentId |-> a,
                            childId |-> c, achievementsUnlocked |-> result.ids]>>
                      \o <<[event |-> "streak:updated", assignmentId |-> a,
                            childId |-> c, achievementsUnlocked |-> {}]>>
               /\ approvePc' = [approvePc EXCEPT ![p] = "done"]
               /\ UNCHANGED approveLocal
          ELSE /\ approveLocal' = [approveLocal EXCEPT ![p].failedAt = "emit"]
               /\ approvePc' = [approvePc EXCEPT ![p] = "failed"]
               /\ UNCHANGED emitted
       /\ UNCHANGED <<childProfiles, taskAssignments, taskHistory>>
       /\ UNCHANGED <<ledgerVars, exceptApprove>>

----------------------------------------------------------------------------
(* Accounts: AuthService (backend/src/services/auth.ts), the family routes   *)
(* (backend/src/routes/family.ts), the auth routes (backend/src/index.ts)    *)
(* and the ChildAuthService of the design document.  Time is in minutes.     *)

UserIds == {"pA", "pB", "c1", "c2", "c3"}

\* The order in which tx.user.create hands out the free ids
FreshIds == <<"c3">>

Families == {"fA", "fB"}

Pins == {"1111", "2222"}

\* bcrypt.hash(pin, SALT_ROUNDS); a NULL pin_hash is NoHash
NoHash == <<>>

Hash(secret) == <<"bcrypt", secret>>

\* bcrypt.compare(pin, hash)
Compare(secret, hash) == hash = Hash(secret)

\* The names that requests carry, and String.prototype.toLowerCase on them
Names == {"Kim", "KIM", "kim", "Lee", "lee"}

toLowerCase(s) ==
    CASE s \in {"Kim", "KIM", "kim"} -> "kim"
      [] s \in {"Lee", "lee"} -> "lee"
      [] OTHER -> s

\* { equals: x, mode: 'insensitive' }, and $ilike on a pattern without wildcards
EqualsInsensitive(a, b) == toLowerCase(a) = toLowerCase(b)

\* A users row joined with its child_profiles row.  username "" is NULL,
\* lockedUntil 0 is NULL, deleted is deleted_at IS NOT NULL.
NoUser ==
    [exists |-> FALSE, familyId |-> "", role |-> "", firstName |-> "", username |-> "",
     passwordHash |-> NoHash, isActive |-> FALSE, deleted |-> FALSE, lockedUntil |-> 0,
     hasProfile |-> FALSE, pinHash |-> NoHash]

\* AuthService.register: the parent row of a new family
ParentRow(family, name) ==
    [exists |-> TRUE, familyId |-> family, role |-> "parent", firstName |-> name,
     username |-> "", passwordHash |-> Hash("secret"), isActive |-> TRUE,
     deleted |-> FALSE, lockedUntil |-> 0, hasProfile |-> FALSE, pinHash |-> NoHash]

\* AuthService.addChild: tx.user.create and tx.childProfile.create
ChildRow(family, name, username, pinHash) ==
    [exists |-> TRUE, familyId |-> family, role |-> "child", firstName |-> name,
     username |-> username, passwordHash |-> NoHash, isActive |-> TRUE,
     deleted |-> FALSE, lockedUntil |-> 0, hasProfile |-> TRUE, pinHash |-> pinHash]

\* generateTokens: the refresh token, jwt.sign({...payload, type: 'refresh'});
\* two tokens signed for one user at the same clock reading are the same string
RefreshToken(u, row, at) ==
    [userId |-> u, familyId |-> row.familyId, role |-> row.role, type |-> "refresh",
     iat |-> at]

\* authenticate: the payload of a verified access token.  The access token is
\* signed together with the refresh token and carries the same claims.
Callers == {[userId |-> t.userId, familyId |-> t.familyId, role |-> t.role] : t \in issued}

\* requireParent
IsParent(caller) == caller.role = "parent"

\* prisma.user.findFirst({ where: { id, familyId: req.familyId, role: 'child',
\* deletedAt: null } }) of the family routes
FindChild_anyFamily(familyId, id) ==
    /\ users[id].exists
    /\ users[id].role = "child"
    /\ ~users[id].deleted

FindChild(familyId, id) ==
    /\ users[id].exists
    /\ users[id].familyId = familyId
    /\ users[id].role = "child"
    /\ ~users[id].deleted

\* The check of refreshToken: !user || !user.isActive || user.deletedAt
StillActive_exists(u) == users[u].exists

StillActive(u) == users[u].exists /\ users[u].isActive /\ ~users[u].deleted

\* The where clause of childLogin
LoginMatches(familyId, childIdentifier) ==
    {u \in UserIds :
        /\ users[u].exists
        /\ users[u].familyId = familyId
        /\ users[u].role = "child"
        /\ ~users[u].deleted
        /\ \/ EqualsInsensitive(users[u].firstName, childIdentifier)
           \/ users[u].username # "" /\ EqualsInsensitive(users[u].username, childIdentifier)}

\* The filter of ChildAuthService.loginWithPin: first_name $ilike, username exact
PinLoginMatches(familyId, childIdentifier) ==
    {u \in UserIds :
        /\ users[u].exists
        /\ users[u].familyId = familyId
        /\ users[u].role = "child"
        /\ \/ EqualsInsensitive(users[u].firstName, childIdentifier)
           \/ users[u].username = childIdentifier}

\* user.lockedUntil && user.lockedUntil > new Date()
IsLocked(u) == users[u].lockedUntil # 0 /\ users[u].lockedUntil > authNow

\* findFirst({ where: { username: { equals: username, mode: 'insensitive' } } })
UsernameTaken(username) ==
    \E u \in UserIds :
        users[u].exists /\ users[u].username # "" /\ EqualsInsensitive(users[u].username, username)

NoResult == [op |-> "none", caller |-> "", target |-> "", outcome |-> "", tokens |-> {}]

Result(op, caller, target, outcome) ==
    [op |-> op, caller |-> caller, target |-> target, outcome |-> outcome, tokens |-> {}]

NoBrowser == [cookie |-> {}, stored |-> {}, ended |-> {}]

NoAttempts == [count |-> 0, expiresAt |-> 0]

AuthIdle ==
    /\ users = [u \in UserIds |-> NoUser]
    /\ authNow = 0
    /\ failedAttempts = [u \in UserIds |-> NoAttempts]
    /\ failureLog = [u \in UserIds |-> <<>>]
    /\ issued = {}
    /\ browser = NoBrowser
    /\ authResult = NoResult

\* Two registered families, each with one child that a parent added
RegisteredUsers(secondPin) ==
    [u \in UserIds |->
        CASE u = "pA" -> ParentRow("fA", "Ann")
          [] u = "pB" -> ParentRow("fB", "Bob")
          [] u = "c1" -> ChildRow("fA", "Kim", "kim", Hash("1111"))
          [] u = "c2" -> ChildRow("fB", "Lee", "lee", secondPin)
          [] OTHER -> NoUser]

\* The most failed PIN attempts that failureLog keeps per child
MaxFailures == 6

\* The last reading of the server clock that is followed
MaxAuthMinutes == 30

\* GET /families/me/children/:id
GetChild(caller, id) ==
    /\ authResult' = Result("getChild", caller.userId, id,
                            IF FindChild(caller.familyId, id) THEN "ok" ELSE "NotFound")
    /\ UNCHANGED <<users, authNow, failedAttempts, failureLog, issued, browser>>
    /\ UNCHANGED exceptAuth

\* PUT /families/me/children/:id; firstName or username "" is a body without it
PutChild(caller, id, firstName, username) ==
    /\ IF ~IsParent(caller)
       THEN /\ authResult' = Result("putChild", caller.userId, id, "Forbidden")
            /\ UNCHANGED users
       ELSE IF ~FindChild(caller.familyId, id)
       THEN /\ authResult' = Result("putChild", caller.userId, id, "NotFound")
            /\ UNCHANGED users
       ELSE /\ users' = [users EXCEPT
                   ![id].firstName = IF firstName = "" THEN @ ELSE firstName,
                   ![id].username = IF username = "" THEN @ ELSE toLowerCase(username)]
            /\ authResult' = Result("putChild", caller.userId, id, "ok")
    /\ UNCHANGED <<authNow, failedAttempts, failureLog, issued, browser>>
    /\ UNCHANGED exceptAuth

\* DELETE /families/me/children/:id
DeleteChild(caller, id) ==
    /\ IF ~IsParent(caller)
       THEN /\ authResult' = Result("deleteChild", caller.userId, id, "Forbidden")
            /\ UNCHANGED users
       ELSE IF ~FindChild(caller.familyId, id)
       THEN /\ authResult' = Result("deleteChild", caller.userId, id, "NotFound")
            /\ UNCHANGED users
       ELSE /\ users' = [users EXCEPT ![id].isActive = FALSE, ![id].deleted = TRUE]
            /\ authResult' = Result("deleteChild", caller.userId, id, "ok")
    /\ UNCHANGED <<authNow, failedAttempts, failureLog, issued, browser>>
    /\ UNCHANGED exceptAuth

\* The id that tx.user.create gives the next row
NextId == FreshIds[CHOOSE i \in 1..Len(FreshIds) :
                       /\ ~users[FreshIds[i]].exists
                       /\ \A j \in 1..(i - 1) : users[FreshIds[j]].exists]

\* POST /families/me/children and AuthService.addChild; username or pin "" is
\* a body without it, ageOk is getAgeGroup(dateOfBirth) being an age group
AddChild(caller, firstName, username, pin, ageOk) ==
    LET creator == users[caller.userId]
    IN /\ \E i \in 1..Len(FreshIds) : ~users[FreshIds[i]].exists
       /\ IF ~IsParent(caller)
          THEN /\ authResult' = Result("addChild", caller.userId, "", "Forbidden")
               /\ UNCHANGED users
          ELSE IF ~creator.exists \/ creator.familyId # caller.familyId
                  \/ creator.role # "parent"
          THEN /\ authResult' = Result("addChild", caller.userId, "", "Unauthorized")
               /\ UNCHANGED users
          ELSE IF username # "" /\ UsernameTaken(username)
          THEN /\ authResult' = Result("addChild", caller.userId, "", "Conflict")
               /\ UNCHANGED users
          ELSE IF ~ageOk
          THEN /\ authResult' = Result("addChild", caller.userId, "", "Validation")
               /\ UNCHANGED users
          ELSE /\ users' = [users EXCEPT ![NextId] =
                      ChildRow(caller.familyId, firstName, toLowerCase(username),
                               IF pin = "" THEN NoHash ELSE Hash(pin))]
               /\ authResult' = Result("addChild", caller.userId, NextId, "ok")
       /\ UNCHANGED <<authNow, failedAttempts, failureLog, issued, browser>>
       /\ UNCHANGED exceptAuth

\* POST /auth/child/pin/setup and AuthService.setupPin
SetupPin(caller, childId, pin) ==
    LET child == users[childId]
        parent == users[caller.userId]
    IN /\ IF ~child.exists \/ ~child.hasProfile
          THEN /\ authResult' = Result("setupPin", caller.userId, childId, "NotFound")
               /\ UNCHANGED users
          ELSE IF ~parent.exists \/ child.familyId # parent.familyId
                  \/ parent.role # "parent"
          THEN /\ authResult' = Result("setupPin", caller.userId, childId, "Unauthorized")
               /\ UNCHANGED users
          ELSE /\ users' = [users EXCEPT ![childId].pinHash = Hash(pin)]
               /\ authResult' = Result("setupPin", caller.userId, childId, "ok")
       /\ UNCHANGED <<authNow, failedAttempts, failureLog, issued, browser>>
       /\ UNCHANGED exceptAuth

\* The response of a login or refresh: the tokens in the body, the refresh
\* token in the cookie as well
Signed(token) ==
    /\ issued' = issued \cup {token}
    /\ browser' = [browser EXCEPT !.cookie = {token}, !.stored = @ \cup {token}]

\* POST /auth/login and AuthService.login; the e-mail address finds user u
Login(u, password) ==
    /\ IF ~users[u].exists \/ users[u].passwordHash = NoHash
       THEN /\ authResult' = Result("login", "", u, "Unauthorized")
            /\ UNCHANGED <<issued, browser>>
       ELSE IF IsLocked(u)
       THEN /\ authResult' = Result("login", "", u, "Locked")
            /\ UNCHANGED <<issued, browser>>
       ELSE IF ~Compare(password, users[u].passwordHash)
       THEN /\ authResult' = Result("login", "", u, "Unauthorized")
            /\ UNCHANGED <<issued, browser>>
       ELSE /\ Signed(RefreshToken(u, users[u], authNow))
            /\ authResult' = [Result("login", "", u, "ok") EXCEPT
                                  !.tokens = {RefreshToken(u, users[u], authNow)}]
    /\ UNCHANGED <<users, authNow, failedAttempts, failureLog>>
    /\ UNCHANGED exceptAuth

\* POST /auth/child/login and AuthService.childLogin.  findFirst has no orderBy:
\* among several matching rows the database returns any one.
ChildLogin(familyId, childIdentifier, pin) ==
    /\ IF LoginMatches(familyId, childIdentifier) = {}
       THEN /\ authResult' = Result("childLogin", "", "", "NotFound")
            /\ UNCHANGED <<failureLog, issued, browser>>
       ELSE \E u \in LoginMatches(familyId, childIdentifier) :
              IF IsLocked(u)
              THEN /\ authResult' = Result("childLogin", "", u, "Locked")
                   /\ UNCHANGED <<failureLog, issued, browser>>
              ELSE IF users[u].pinHash = NoHash
              THEN /\ authResult' = Result("childLogin", "", u, "NoPin")
                   /\ UNCHANGED <<failureLog, issued, browser>>
              ELSE IF ~Compare(pin, users[u].pinHash)
              THEN /\ Len(failureLog[u]) < MaxFailures
                   /\ failureLog' = [failureLog EXCEPT ![u] = Append(@, authNow)]
                   /\ authResult' = Result("childLogin", "", u, "InvalidPin")
                   /\ UNCHANGED <<issued, browser>>
              ELSE /\ Signed(RefreshToken(u, users[u], authNow))
                   /\ authResult' = [Result("childLogin", "", u, "ok") EXCEPT
                                         !.tokens = {RefreshToken(u, users[u], authNow)}]
                   /\ UNCHANGED failureLog
    /\ UNCHANGED <<users, authNow, failedAttempts>>
    /\ UNCHANGED exceptAuth

\* redis.incr(key) on a key that expires at expiresAt
Incr(key) == IF key.count = 0 \/ authNow >= key.expiresAt THEN 1 ELSE key.count + 1

LOCK_AFTER == 5

LOCK_MINUTES == 15

\* ChildAuthService.loginWithPin with trackFailedAttempt, without a deviceId
LoginWithPin(familyId, childIdentifier, pin) ==
    /\ IF PinLoginMatches(familyId, childIdentifier) = {}
       THEN /\ authResult' = Result("loginWithPin", "", "", "NotFound")
            /\ UNCHANGED <<users, failedAttempts, failureLog>>
       ELSE \E u \in PinLoginMatches(familyId, childIdentifier) :
              IF ~users[u].hasProfile \/ ~Compare(pin, users[u].pinHash)
              THEN /\ Len(failureLog[u]) < MaxFailures
                   /\ failureLog' = [failureLog EXCEPT ![u] = Append(@, authNow)]
                   /\ failedAttempts' = [failedAttempts EXCEPT ![u] =
                          [count |-> Incr(@), expiresAt |-> authNow + LOCK_MINUTES]]
                   /\ users' = IF Incr(failedAttempts[u]) >= LOCK_AFTER
                               THEN [users EXCEPT ![u].lockedUntil = authNow + LOCK_MINUTES]
                               ELSE users
                   /\ authResult' = Result("loginWithPin", "", u, "InvalidPin")
              ELSE /\ authResult' = Result("loginWithPin", "", u, "ok")
                   /\ UNCHANGED <<users, failedAttempts, failureLog>>
    /\ UNCHANGED <<authNow, issued, browser>>
    /\ UNCHANGED exceptAuth

\* POST /auth/refresh and AuthService.refreshToken: the cookie if there is one,
\* else the body's refreshToken; body {} is a string that jwt.verify rejects
Refresh(body) ==
    LET presented == IF browser.cookie # {} THEN browser.cookie ELSE body
    IN /\ IF presented = {} \/ ~(presented \subseteq issued)
          THEN /\ authResult' = Result("refresh", "", "", "InvalidToken")
               /\ UNCHANGED <<issued, browser>>
          ELSE \E t \in presented :
                 IF ~StillActive(t.userId)
                 THEN /\ authResult' = [Result("refresh", "", t.userId, "Unauthorized")
                                            EXCEPT !.tokens = presented]
                      /\ UNCHANGED <<issued, browser>>
                 ELSE /\ Signed(RefreshToken(t.userId, users[t.userId], authNow))
                      /\ authResult' = [Result("refresh", "", t.userId, "ok")
                                            EXCEPT !.tokens = presented]
       /\ UNCHANGED <<users, authNow, failedAttempts, failureLog>>
       /\ UNCHANGED exceptAuth

\* POST /auth/logout: res.clearCookie('refreshToken').  ended collects the
\* refresh tokens that the session had been sent when it logged out.
Logout ==
    /\ browser' = [cookie |-> {}, stored |-> browser.stored,
                   ended |-> browser.ended \cup browser.stored]
    /\ authResult' = Result("logout", "", "", "ok")
    /\ UNCHANGED <<users, authNow, failedAttempts, failureLog, issued>>
    /\ UNCHANGED exceptAuth

\* The server clock moves on
AuthTick(dt) ==
    /\ authNow + dt <= MaxAuthMinutes
    /\ authNow' = authNow + dt
    /\ UNCHANGED <<users, failedAttempts, failureLog, issued, browser, authResult>>
    /\ UNCHANGED exceptAuth

\* The state after two families registered and each parent added one child,
\* the second one without a PIN
AccountsInit ==
    /\ users = RegisteredUsers(NoHash)
    /\ authNow = 0
    /\ failedAttempts = [u \in UserIds |-> NoAttempts]
    /\ failureLog = [u \in UserIds |-> <<>>]
    /\ issued = {RefreshToken(u, ParentRow(f, ""), 0) : <<u, f>> \in {<<"pA", "fA">>, <<"pB", "fB">>}}
    /\ browser = NoBrowser
    /\ authResult = NoResult

ChildIds == {"c1", "c2", "c3"}

\* What the browser can put into the body of POST /auth/refresh
Bodies == {{}} \cup {{t} : t \in browser.stored}

----------------------------------------------------------------------------
(* Offline sync: SyncManager over db.syncQueue and db.syncDeadLetter *)

MAX_RETRIES == 5

\* The most changes that are queued
MaxItems == 2

ItemIds == 1..MaxItems

NoHistory == [queued |-> FALSE, failures |-> 0, synced |-> FALSE]

SyncIdle ==
    /\ syncQueue = {}
    /\ syncDeadLetter = <<>>
    /\ syncRun = [isProcessing |-> FALSE, items |-> <<>>]
    /\ syncHistory = [i \in ItemIds |-> NoHistory]

\* db.syncQueue.orderBy('timestamp').filter(item => item.retryCount < MAX_RETRIES)
\*   .toArray()
PendingItems(rows) ==
    LET found == {x \in rows : x.retryCount < MAX_RETRIES}
    IN [k \in 1..Cardinality(found) |->
           CHOOSE x \in found :
               Cardinality({y \in found : y.timestamp < x.timestamp}) = k - 1]

\* newRetryCount >= MAX_RETRIES
IsPermanent_after(newRetryCount) == newRetryCount > MAX_RETRIES

IsPermanent(newRetryCount) == newRetryCount >= MAX_RETRIES

\* db.syncQueue.delete(id)
Without(rows, id) == {x \in rows : x.id # id}

\* db.syncQueue.update(id, { retryCount }): a key that is gone changes nothing
WithRetryCount(rows, id, n) ==
    {IF x.id = id THEN [x EXCEPT !.retryCount = n] ELSE x : x \in rows}

\* db.syncDeadLetter.delete(id)
DeadLetterWithout(rows, id) == SelectSeq(rows, LAMBDA x : x.id # id)

\* db.syncQueue.add of an offline change: retryCount 0, the ids and the
\* timestamps grow with each add
QueueChange ==
    /\ \E id \in ItemIds :
          /\ ~syncHistory[id].queued
          /\ \A j \in 1..(id - 1) : syncHistory[j].queued
          /\ syncQueue' = syncQueue \cup {[id |-> id, timestamp |-> id, retryCount |-> 0]}
          /\ syncHistory' = [syncHistory EXCEPT ![id].queued = TRUE]
    /\ UNCHANGED <<syncDeadLetter, syncRun>>
    /\ UNCHANGED exceptSync

\* processSyncQueue up to its loop; a call while isProcessing returns at once
ProcessStart ==
    /\ ~syncRun.isProcessing
    /\ syncRun' = [isProcessing |-> TRUE, items |-> PendingItems(syncQueue)]
    /\ UNCHANGED <<syncQueue, syncDeadLetter, syncHistory>>
    /\ UNCHANGED exceptSync

\* handleFailure(item, error), with the item as the loop read it
HandleFailure(item) ==
    LET newRetryCount == item.retryCount + 1
    IN IF IsPermanent(newRetryCount)
       THEN /\ syncDeadLetter' = Append(syncDeadLetter, item)
            /\ syncQueue' = Without(syncQueue, item.id)
       ELSE /\ syncQueue' = WithRetryCount(syncQueue, item.id, newRetryCount)
            /\ UNCHANGED syncDeadLetter

\* handleConflict(item, result)
HandleConflict(item) == UNCHANGED <<syncQueue, syncDeadLetter>>

\* One turn of the loop: syncItem and what follows from its result
SyncItem(status) ==
    LET item == Head(syncRun.items)
    IN /\ syncRun.isProcessing
       /\ syncRun.items # <<>>
       /\ CASE status = "conflict" ->
                 /\ HandleConflict(item)
                 /\ UNCHANGED syncHistory
            [] status = "failed" ->
                 /\ HandleFailure(item)
                 /\ syncHistory' = [syncHistory EXCEPT ![item.id].failures = @ + 1]
            [] status = "success" ->
                 /\ syncQueue' = Without(syncQueue, item.id)
                 /\ syncHistory' = [syncHistory EXCEPT ![item.id].synced = TRUE]
                 /\ UNCHANGED syncDeadLetter
       /\ syncRun' = [syncRun EXCEPT !.items = Tail(@)]
       /\ UNCHANGED exceptSync

\* The loop is over: finally { this.isProcessing = false }
ProcessEnd ==
    /\ syncRun.isProcessing
    /\ syncRun.items = <<>>
    /\ syncRun' = [syncRun EXCEPT !.isProcessing = FALSE]
    /\ UNCHANGED <<syncQueue, syncDeadLetter, syncHistory>>
    /\ UNCHANGED exceptSync

\* retrySingleItem(itemId), the Retry of the failure toast, up to the loop of
\* the processSyncQueue it calls
RetrySingleItem(itemId) ==
    /\ \E k \in 1..Len(syncDeadLetter) : syncDeadLetter[k].id = itemId
    /\ LET k == CHOOSE k \in 1..Len(syncDeadLetter) : syncDeadLetter[k].id = itemId
           item == syncDeadLetter[k]
           queue == syncQueue \cup {[item EXCEPT !.retryCount = 0]}
       IN /\ syncQueue' = queue
          /\ syncDeadLetter' = DeadLetterWithout(syncDeadLetter, itemId)
          /\ syncHistory' = [syncHistory EXCEPT ![itemId].failures = 0]
          /\ syncRun' = IF syncRun.isProcessing THEN syncRun
                        ELSE [isProcessing |-> TRUE, items |-> PendingItems(queue)]
    /\ UNCHANGED exceptSync

----------------------------------------------------------------------------
(* Two concurrent invocations of AchievementEngine.unlockAchievement *)

Invocations == {"u1", "u2"}

NoCall == [pc |-> "idle", child |-> "none", achievement |-> "none", error |-> "none"]

RaceIdle == unlockCalls = [i \in Invocations |-> NoCall]

\* UNIQUE(child_id, achievement_id) on child_achievements: TRUE when the row
\* may be inserted
UniqueAllows_any(rows, row) == TRUE

UniqueAllows(rows, row) == \A k \in 1..Len(rows) : rows[k] # row

\* Two checkAchievements runs of one child have both found the criteria of one
\* achievement to hold and call unlockAchievement; the achievement may have
\* been unlocked before
RaceInit ==
    /\ \E c \in Children, a \in Achievements :
          /\ unlockCalls = [i \in Invocations |->
                 [pc |-> "find", child |-> c, achievement |-> a, error |-> "none"]]
          /\ childAchievements \in {<<>>, <<[child |-> c, achievement |-> a]>>}
    /\ ledger = [c \in Children |-> <<>>]
    /\ notifications = <<>>
    /\ lastInsert = NoInsert
    /\ unlockRuns = [c \in Children |-> [a \in Achievements |-> 0]]

\* db.childAchievements.findOne(...); if (existing) return
UnlockFind(i) ==
    LET call == unlockCalls[i]
    IN /\ call.pc = "find"
       /\ unlockCalls' = [unlockCalls EXCEPT ![i].pc =
              IF HasAchievement(call.child, call.achievement) THEN "done" ELSE "insert"]
       /\ UNCHANGED <<ledgerVars, exceptRace>>

\* db.childAchievements.insert(...): the constraint throws on a second row
UnlockInsert(i) ==
    LET call == unlockCalls[i]
        row == [child |-> call.child, achievement |-> call.achievement]
    IN /\ call.pc = "insert"
       /\ IF UniqueAllows(childAchievements, row)
          THEN /\ childAchievements' = Append(childAchievements, row)
               /\ unlockCalls' = [unlockCalls EXCEPT ![i].pc = "award"]
          ELSE /\ unlockCalls' = [unlockCalls EXCEPT ![i].pc = "failed",
                                                     ![i].error = "unique_violation"]
               /\ UNCHANGED childAchievements
       /\ UNCHANGED <<ledger, notifications, lastInsert, unlockRuns>>
       /\ UNCHANGED exceptRace

\* if (achievement.points_reward > 0) await this.awardPoints(...)
UnlockAward(i) ==
    LET call == unlockCalls[i]
        c == call.child
        new == awardPointsRow(ledger[c], PointsReward[call.achievement],
                              "achievement_unlock")
    IN /\ call.pc = "award"
       /\ IF PointsReward[call.achievement] > 0
          THEN /\ ledger' = [ledger EXCEPT ![c] = LedgerAfterInsert(@, new)]
               /\ lastInsert' = InsertRecord(c, ledger[c], new)
               /\ unlockCalls' =
                      IF validate_points_balance(ledger[c], new)
                      THEN [unlockCalls EXCEPT ![i].pc = "notify"]
                      ELSE [unlockCalls EXCEPT ![i].pc = "failed",
                                               ![i].error = "IntegrityError"]
          ELSE /\ unlockCalls' = [unlockCalls EXCEPT ![i].pc = "notify"]
               /\ UNCHANGED <<ledger, lastInsert>>
       /\ UNCHANGED <<childAchievements, notifications, unlockRuns>>
       /\ UNCHANGED exceptRace

\* notificationService.send({ type: 'achievement_unlocked', ... })
UnlockNotify(i) ==
    LET call == unlockCalls[i]
    IN /\ call.pc = "notify"
       /\ notifications' =
              Append(notifications, [user |-> call.child, type |-> "achievement_unlocked",
                                     achievement |-> call.achievement])
       /\ unlockCalls' = [unlockCalls EXCEPT ![i].pc = "done"]
       /\ UNCHANGED <<ledger, childAchievements, lastInsert, unlockRuns>>
       /\ UNCHANGED exceptRace

----------------------------------------------------------------------------
(* Specifications *)

ServicesIdle == AuthIdle /\ SyncIdle /\ RaceIdle

EngineIdle == EarlyIdle /\ XpIdle /\ BoardIdle /\ ApproveIdle /\ ServicesIdle

InitEarly ==
    /\ LedgerInit /\ LevelIdle /\ StreakIdle /\ BonusIdle
    /\ EarlyInit /\ XpIdle /\ BoardIdle /\ ApproveIdle /\ ServicesIdle

NextEarly == ApplyEarlyCompletionBonus

SpecEarly == InitEarly /\ [][NextEarly]_vars

InitXp ==
    /\ LedgerInit /\ LevelIdle /\ StreakIdle /\ BonusIdle
    /\ EarlyIdle /\ XpInit /\ BoardIdle /\ ApproveIdle /\ ServicesIdle

NextXp == ApplyTaskXp

SpecXp == InitXp /\ [][NextXp]_vars

InitBoard ==
    /\ LedgerInit /\ LevelIdle /\ StreakIdle /\ BonusIdle
    /\ EarlyIdle /\ XpIdle /\ BoardInit /\ ApproveIdle /\ ServicesIdle

NextBoard == ApplyFamilyLeaderboard

SpecBoard == InitBoard /\ [][NextBoard]_vars

InitApprove ==
    /\ LevelIdle /\ StreakIdle /\ BonusIdle
    /\ EarlyIdle /\ XpIdle /\ BoardIdle /\ ApproveInit /\ ServicesIdle

NextApprove ==
    \E p \in Calls :
        \/ ApproveUpdate(p)
        \/ AwardPointsRead(p)
        \/ AwardPointsInsert(p)
        \/ AwardXp(p)
        \/ CheckAchievements(p)
        \/ UpdateStreak(p)
        \/ EmitApproved(p)

SpecApprove == InitApprove /\ [][NextApprove]_vars

InitReapprove ==
    /\ LevelIdle /\ StreakIdle /\ BonusIdle
    /\ EarlyIdle /\ XpIdle /\ BoardIdle /\ ReapproveInit /\ ServicesIdle

SpecReapprove == InitReapprove /\ [][NextApprove]_vars

InitAnySign ==
    LedgerInit /\ AnySignLevelInit /\ StreakIdle /\ AnySignBonusInit /\ EngineIdle

NextAnySign == calculateStreakBonus \/ ApplyXpRequired

SpecAnySign == InitAnySign /\ [][NextAnySign]_vars

Init == LedgerInit /\ LevelIdle /\ StreakIdle /\ BonusIdle /\ EngineIdle

Next ==
    \/ \E c \in Children, amount \in Amounts :
           \E declared \in DeclaredBalances(ledger[c], amount) :
               InsertLedgerEntry(c, amount, declared)
    \/ \E c \in Children, a \in Achievements : unlockAchievement(c, a)

Spec == Init /\ [][Next]_vars

InitLevel == LedgerInit /\ LevelInit /\ StreakIdle /\ BonusIdle /\ EngineIdle

NextLevel == ApplyCumulativeXp \/ ApplyLevelFromXp

SpecLevel == InitLevel /\ [][NextLevel]_vars

InitDay == LedgerInit /\ LevelIdle /\ DayInit /\ BonusIdle /\ EngineIdle

NextDay == ApplyGetStreakDay

SpecDay == InitDay /\ [][NextDay]_vars

InitStreak == LedgerInit /\ LevelIdle /\ StreakInit /\ BonusIdle /\ EngineIdle

NextStreak ==
    \/ ApproveCompletion
    \/ \E dt \in AdvanceSteps : AdvanceClock(dt)
    \/ CalcQuery
    \/ CalcLoop
    \/ CalcReturn

SpecStreak == InitStreak /\ [][NextStreak]_vars

InitBonus == LedgerInit /\ LevelIdle /\ StreakIdle /\ BonusInit /\ EngineIdle

NextBonus == calculateStreakBonus

SpecBonus == InitBonus /\ [][NextBonus]_vars

\* calculateStreak under every configuration the constructor takes: the
\* constructor merges any Partial<StreakConfig>, so minimumTasksPerDay can be 0.
\* A call that has started keeps running: the loop and the return are fair.
StreakAnyInit ==
    /\ gracePeriodHours \in GraceChoices
    /\ minimumTasksPerDay \in 0..MaxMinimumTasks
    /\ now \in StartTimes
    /\ \E run \in {0, 2} : completions = PreHistory(run, minimumTasksPerDay)
    /\ dayCall = 0
    /\ dayResult = NoDayResult
    /\ calcPc = "idle"
    /\ completionsByDay = <<>>
    /\ checkDate = 0
    /\ currentStreak = 0
    /\ streakResult = NoStreakResult

InitStreakAny == LedgerInit /\ LevelIdle /\ StreakAnyInit /\ BonusIdle /\ EngineIdle

NextStreakAny ==
    \/ ApproveCompletion
    \/ AdvanceClock(MinutesPerDay)
    \/ CalcQuery
    \/ CalcLoop
    \/ CalcReturn

SpecStreakAny ==
    InitStreakAny /\ [][NextStreakAny]_vars /\ WF_vars(CalcLoop) /\ WF_vars(CalcReturn)

InitTotalXp == LedgerInit /\ TotalXpInit /\ StreakIdle /\ BonusIdle /\ EngineIdle

NextTotalXp == ApplyLevelFromXp

SpecTotalXp == InitTotalXp /\ [][NextTotalXp]_vars

InitFamily ==
    /\ LedgerInit /\ LevelIdle /\ StreakIdle /\ BonusIdle
    /\ EarlyIdle /\ XpIdle /\ BoardIdle /\ ApproveIdle /\ AccountsInit /\ SyncIdle /\ RaceIdle

NextFamily ==
    \/ \E caller \in Callers : \E id \in ChildIds : GetChild(caller, id)
    \/ \E caller \in Callers : \E id \in ChildIds : \E username \in {"", "Lee"} :
           PutChild(caller, id, "", username)
    \/ \E caller \in Callers : \E id \in ChildIds : DeleteChild(caller, id)
    \/ \E caller \in Callers : \E username \in {"", "KIM"} : \E ageOk \in BOOLEAN :
           AddChild(caller, "Kim", username, "", ageOk)
    \/ \E caller \in Callers : \E id \in ChildIds : SetupPin(caller, id, "1111")
    \/ \E familyId \in Families : \E name \in {"kim", "Lee"} :
           ChildLogin(familyId, name, "1111")
    \/ \E body \in Bodies : Refresh(body)

SpecFamily == InitFamily /\ [][NextFamily]_vars

\* PIN logins of one child through both services, wrong and right PINs, while
\* the clock moves
InitLockout ==
    /\ LedgerInit /\ LevelIdle /\ StreakIdle /\ BonusIdle
    /\ EarlyIdle /\ XpIdle /\ BoardIdle /\ ApproveIdle /\ AccountsInit /\ SyncIdle /\ RaceIdle

NextLockout ==
    \/ \E pin \in Pins : ChildLogin("fA", "kim", pin)
    \/ \E pin \in Pins : LoginWithPin("fA", "kim", pin)
    \/ AuthTick(LOCK_MINUTES)

SpecLockout == InitLockout /\ [][NextLockout]_vars

\* One browser that logs in, refreshes and logs out while the clock moves
InitSession ==
    /\ LedgerInit /\ LevelIdle /\ StreakIdle /\ BonusIdle
    /\ EarlyIdle /\ XpIdle /\ BoardIdle /\ ApproveIdle /\ AccountsInit /\ SyncIdle /\ RaceIdle

NextSession ==
    \/ \E password \in {"secret", "guess"} : Login("pA", password)
    \/ \E pin \in Pins : ChildLogin("fA", "kim", pin)
    \/ \E body \in Bodies : Refresh(body)
    \/ Logout
    \/ AuthTick(LOCK_MINUTES)

SpecSession == InitSession /\ [][NextSession]_vars

InitSync ==
    /\ LedgerInit /\ LevelIdle /\ StreakIdle /\ BonusIdle
    /\ EarlyIdle /\ XpIdle /\ BoardIdle /\ ApproveIdle /\ AuthIdle /\ SyncIdle /\ RaceIdle

NextSync ==
    \/ QueueChange
    \/ ProcessStart
    \/ \E status \in {"success", "failed", "conflict"} : SyncItem(status)
    \/ ProcessEnd
    \/ \E itemId \in ItemIds : RetrySingleItem(itemId)

SpecSync == InitSync /\ [][NextSync]_vars

InitRace ==
    /\ RaceInit /\ LevelIdle /\ StreakIdle /\ BonusIdle
    /\ EarlyIdle /\ XpIdle /\ BoardIdle /\ ApproveIdle /\ AuthIdle /\ SyncIdle

NextRace ==
    \E i \in Invocations :
        \/ UnlockFind(i)
        \/ UnlockInsert(i)
        \/ UnlockAward(i)
        \/ UnlockNotify(i)

SpecRace == InitRace /\ [][NextRace]_vars

----------------------------------------------------------------------------
(* Properties of the points ledger and of achievement unlocking (Spec) *)

\* C1: every row of a child's ledger (each was accepted by the balance check)
\* has balanceAfter equal to the sum of pointsAmount of the rows up to and
\* including itself.
C1_RunningBalance ==
    \A c \in Children : \A k \in 1..Len(ledger[c]) :
        ledger[c][k].balanceAfter = LedgerSum(SubSeq(ledger[c], 1, k))

\* C2: an insert with pointsAmount > 0 that declares balanceAfter = prior
\* balance + pointsAmount is accepted and adds exactly one row.
C2_EarningAppendAccepted ==
    (/\ lastInsert.outcome # "none"
     /\ lastInsert.amount > 0
     /\ lastInsert.declared = lastInsert.prior + lastInsert.amount)
    => (lastInsert.outcome = "inserted" /\ lastInsert.added = 1)

\* C3: an insert whose declared balanceAfter differs from prior balance +
\* pointsAmount fails with an integrity error and leaves the ledger as it was.
C3_WrongBalanceRejected ==
    (/\ lastInsert.outcome # "none"
     /\ lastInsert.declared # lastInsert.prior + lastInsert.amount)
    => (/\ lastInsert.outcome = "IntegrityError"
        /\ lastInsert.added = 0
        /\ lastInsert.priorRowsKept)

UnlockedRows(c, a) ==
    {i \in 1..Len(childAchievements) :
        childAchievements[i] = [child |-> c, achievement |-> a]}

BonusRows(c, a) ==
    {i \in 1..Len(ledger[c]) :
        /\ ledger[c][i].transactionType = "bonus"
        /\ ledger[c][i].referenceType = "achievement_unlock"
        /\ ledger[c][i].pointsAmount = PointsReward[a]}

UnlockNotifications(c, a) ==
    {i \in 1..Len(notifications) :
        notifications[i] = [user |-> c, type |-> "achievement_unlocked", achievement |-> a]}

\* C5: after unlockAchievement has run twice, one run after the other, for the
\* same child and an achievement with pointsReward > 0, there is exactly one
\* child_achievements row, one bonus ledger row and one notification for it.
C5_UnlockTwiceOnce ==
    \A c \in Children, a \in Achievements :
        (PointsReward[a] > 0 /\ unlockRuns[c][a] = 2)
        => /\ Cardinality(UnlockedRows(c, a)) = 1
           /\ Cardinality(BonusRows(c, a)) = 1
           /\ Cardinality(UnlockNotifications(c, a)) = 1

----------------------------------------------------------------------------
(* Properties of the XP / level model (SpecLevel) *)

\* C4 as stated: for every level L >= 1, levelFromXp(cumulativeXpForLevel(L))
\* returns level = L and currentXp = 0.
C4_RoundTripAsStated ==
    (lvlCall.stage = "done" /\ lvlCall.level >= 1)
    => (lvlResult.level = lvlCall.level /\ lvlResult.currentXp = 0)

\* C4 as amended: for every level L below MAX_LEVEL,
\* levelFromXp(cumulativeXpForLevel(L)) returns level = L + 1 and currentXp = 0;
\* for L >= MAX_LEVEL it returns level = MAX_LEVEL and keeps the XP beyond
\* cumulativeXpForLevel(MAX_LEVEL - 1) in currentXp.
C4_RoundTrip ==
    lvlCall.stage = "done"
    => IF lvlCall.level < MAX_LEVEL
       THEN lvlResult.level = lvlCall.level + 1 /\ lvlResult.currentXp = 0
       ELSE /\ lvlResult.level = MAX_LEVEL
            /\ lvlResult.currentXp =
                   lvlCall.totalXp - cumulativeXpForLevel(MAX_LEVEL - 1)
            /\ lvlResult.currentXp > 0

\* Level 2 is completed at 100 + 282 XP, where level 3 starts
C4_Witness ==
    /\ lvlCall.stage = "done"
    /\ lvlCall.level = 2
    /\ lvlCall.totalXp = 382
    /\ lvlResult.level = 3
    /\ lvlResult.currentXp = 0

----------------------------------------------------------------------------
(* Properties of the streak calculator (SpecDay, SpecStreak) *)

\* C8: getStreakDay maps a timestamp on calendar day D to D - 1 when its time
\* of day is earlier than gracePeriodHours hours and to D otherwise; with a
\* grace period of 4 hours, 01:30 gives D - 1 and 05:00 gives D.
C8_StreakDay ==
    dayResult.called
    => LET D == dayCall \div MinutesPerDay
           timeOfDay == dayCall % MinutesPerDay
       IN /\ timeOfDay < gracePeriodHours * 60 => dayResult.day = D - 1
          /\ timeOfDay >= gracePeriodHours * 60 => dayResult.day = D
          /\ (gracePeriodHours = 4 /\ timeOfDay = 90) => dayResult.day = D - 1
          /\ (gracePeriodHours = 4 /\ timeOfDay = 300) => dayResult.day = D

\* 01:30 on day 1 with a grace period of 4 hours is streak-day 0
C8_Witness ==
    /\ dayResult.called
    /\ gracePeriodHours = 4
    /\ dayCall = MinutesPerDay + 90
    /\ dayResult.day = 0

Today == getStreakDay(now, gracePeriodHours)

\* Approved completions of streak-day d: all of them, or those the 90-day
\* query returns
CountOn(d, windowed) ==
    Cardinality({i \in 1..Len(completions) :
        /\ getStreakDay(completions[i], gracePeriodHours) = d
        /\ windowed => completions[i] >= now - WindowDays * MinutesPerDay})

Qualifies(d, windowed) == CountOn(d, windowed) >= minimumTasksPerDay

\* Length of the maximal run of consecutive qualifying days that ends at day d
RECURSIVE RunEndingAt(_, _)
RunEndingAt(d, windowed) ==
    IF Qualifies(d, windowed) THEN 1 + RunEndingAt(d - 1, windowed) ELSE 0

LiveRun(windowed) ==
    IF Qualifies(Today, windowed)
    THEN RunEndingAt(Today, windowed)
    ELSE RunEndingAt(Today - 1, windowed)

\* C6 as stated: for any completion history currentStreak is the length of the
\* maximal run of consecutive qualifying streak-days that ends today (or
\* yesterday when today does not qualify yet).
C6_StreakAsStated ==
    calcPc = "done" => streakResult.currentStreak = LiveRun(FALSE)

\* C6 as amended: the same, over the approved completions of the trailing 90
\* days that calculateStreak queries; completions on D, D-1, D-2 and none on
\* D-3, evaluated on day D, give currentStreak = 3 and streakAtRisk = FALSE.
C6_StreakContinuity ==
    calcPc = "done"
    => /\ streakResult.currentStreak = LiveRun(TRUE)
       /\ (/\ Qualifies(Today, TRUE)
           /\ Qualifies(Today - 1, TRUE)
           /\ Qualifies(Today - 2, TRUE)
           /\ CountOn(Today - 3, FALSE) = 0)
          => (streakResult.currentStreak = 3 /\ ~streakResult.streakAtRisk)

C6_Witness ==
    /\ calcPc = "done"
    /\ minimumTasksPerDay = 1
    /\ CountOn(Today, FALSE) = 1
    /\ CountOn(Today - 1, FALSE) = 1
    /\ CountOn(Today - 2, FALSE) = 1
    /\ CountOn(Today - 3, FALSE) = 0
    /\ streakResult.currentStreak = 3
    /\ ~streakResult.streakAtRisk

\* C7: when today has fewer than minimumTasksPerDay completions the result
\* counts the run that ends yesterday; streakAtRisk is TRUE exactly when
\* currentStreak > 0 and today's count is below the minimum; with no
\* qualifying day today or yesterday the result is 0 and not at risk.
C7_TodaySkipped ==
    calcPc = "done"
    => /\ ~Qualifies(Today, TRUE)
          => streakResult.currentStreak = RunEndingAt(Today - 1, TRUE)
       /\ streakResult.streakAtRisk
          <=> (streakResult.currentStreak > 0
               /\ CountOn(Today, TRUE) < minimumTasksPerDay)
       /\ (~Qualifies(Today, TRUE) /\ ~Qualifies(Today - 1, TRUE))
          => (streakResult.currentStreak = 0 /\ ~streakResult.streakAtRisk)

\* One completion today where two are required, after two qualifying days
C7_Witness ==
    /\ calcPc = "done"
    /\ minimumTasksPerDay = 2
    /\ CountOn(Today, TRUE) = 1
    /\ streakResult.currentStreak = 2
    /\ streakResult.streakAtRisk

----------------------------------------------------------------------------
(* Properties of the streak bonus (SpecBonus) *)

C10_MilestoneExactDays ==
    bonusResult.called
    => /\ bonusResult.breakdown.milestone =
              (IF bonusCall.streakDays \in {3, 7, 14, 30, 60, 100}
               THEN 5 * bonusCall.streakDays ELSE 0)
       /\ bonusCall.streakDays = 7 => bonusResult.breakdown.milestone = 35
       /\ bonusCall.streakDays = 8 => bonusResult.breakdown.milestone = 0

C10_Witness ==
    /\ bonusResult.called
    /\ bonusCall = [basePoints |-> 100, streakDays |-> 7]
    /\ bonusResult.breakdown.milestone = 35
    /\ bonusResult.totalPoints = 170

----------------------------------------------------------------------------
(* Properties of the early completion bonus (SpecEarly) *)

\* C11: the bonus is 0 when completedAt >= dueDate, and otherwise
\* round(basePoints * p) for the single best tier of hours early: 25% from 48h,
\* 15% from 24h, 10% from 12h, 5% from 6h, 0 below 6h; tiers are not added
\* (100 points, 48h early gives 25).
C11_EarlyBonusTiers ==
    earlyResult.called
    => LET early == earlyCall.dueDate - earlyCall.completedAt
           base == earlyCall.basePoints
           p == CASE early >= 2880 -> 25
                  [] early >= 1440 /\ early < 2880 -> 15
                  [] early >= 720 /\ early < 1440 -> 10
                  [] early >= 360 /\ early < 720 -> 5
                  [] OTHER -> 0
       IN /\ earlyCall.completedAt >= earlyCall.dueDate => earlyResult.bonus = 0
          /\ earlyCall.completedAt < earlyCall.dueDate
             => /\ 100 * earlyResult.bonus - base * p <= 50
                /\ base * p - 100 * earlyResult.bonus < 50
          /\ (base = 100 /\ early = 2880) => earlyResult.bonus = 25

C11_Witness ==
    /\ earlyResult.called
    /\ earlyCall.basePoints = 100
    /\ earlyCall.dueDate - earlyCall.completedAt = 2880
    /\ earlyResult.bonus = 25

----------------------------------------------------------------------------
(* Properties of the core functions on nonsensical input (SpecAnySign) *)

\* C19: calculateStreakBonus with negative basePoints or negative streakDays
\* and xpRequiredForLevel with a level below 0 fail fast: they return no
\* value, and no returned totalPoints is below basePoints.
C19_FailFast ==
    /\ ~(bonusResult.called /\ (bonusCall.basePoints < 0 \/ bonusCall.streakDays < 0))
    /\ ~(lvlCall.stage = "done" /\ lvlCall.level < 0 /\ lvlResult.returned)
    /\ bonusResult.called => bonusResult.totalPoints >= bonusCall.basePoints

----------------------------------------------------------------------------
(* Properties of the task XP (SpecXp) *)

\* C20: the XP is round(base * m) with base 10 / 20 / 35 for easy / medium /
\* hard and 15 otherwise, and m decided only by how long before the due date
\* the task was completed: 1.25 above 24h, 1.10 above 6h, else 1.0 (also
\* without a due date); it does not depend on when the approval is processed.
C20_TaskXpByCompletion ==
    xpResult.called
    => LET base == CASE xpCall.difficulty = "easy" -> 10
                     [] xpCall.difficulty = "medium" -> 20
                     [] xpCall.difficulty = "hard" -> 35
                     [] OTHER -> 15
           early == IF xpCall.hasDueDate THEN xpCall.dueDate - xpCall.completedAt
                    ELSE 0
           m == IF early > 1440 THEN 125 ELSE IF early > 360 THEN 110 ELSE 100
       IN xpResult.xp = (base * m + 50) \div 100

----------------------------------------------------------------------------
(* Properties of the family leaderboard (SpecBoard) *)

\* The active children of the family of the call, in the order of the table
ActiveChildIds ==
    {boardUsers[i].id : i \in {j \in 1..Len(boardUsers) :
        /\ boardUsers[j].family = boardCall.familyId
        /\ boardUsers[j].role = "child"
        /\ boardUsers[j].active}}

TablePosition(childId) ==
    CHOOSE i \in 1..Len(boardUsers) : boardUsers[i].id = childId

\* C12: getFamilyLeaderboard returns one entry per active child of the
\* family, scores non-increasing, rank equal to the 1-based position, so the
\* ranks are exactly 1..n even with ties (scores 100, 100, 50 get 1, 2, 3),
\* and children with equal scores keep their iteration order.
C12_LeaderboardRanks ==
    boardResult.called
    => LET e == boardResult.entries
           n == Len(e)
       IN /\ n = Cardinality(ActiveChildIds)
          /\ {e[i].childId : i \in 1..n} = ActiveChildIds
          /\ \A i \in 1..n : e[i].rank = i
          /\ \A i, j \in 1..n :
                 i < j => /\ e[i].score >= e[j].score
                          /\ e[i].score = e[j].score
                             => TablePosition(e[i].childId)
                                < TablePosition(e[j].childId)

C12_Witness ==
    /\ boardResult.called
    /\ Len(boardResult.entries) = 3
    /\ [i \in 1..3 |-> boardResult.entries[i].score] = <<100, 100, 50>>
    /\ [i \in 1..3 |-> boardResult.entries[i].rank] = <<1, 2, 3>>
    /\ boardResult.entries[1].childId = "k1"
    /\ boardResult.entries[2].childId = "k2"

\* The sum of the amounts of the rows of ledger at the indices in idx
RECURSIVE SumAt(_, _)
SumAt(rows, idx) ==
    IF idx = {} THEN 0
    ELSE LET i == CHOOSE x \in idx : TRUE
         IN rows[i].amount + SumAt(rows, idx \ {i})

\* C13: every entry's score is round(points * 1.0 + tasks * 5.0 + streak * 2.0
\* + achievements * 10.0), where points sums only the child's 'earned' ledger
\* entries within the date range (bonus and redeemed rows do not count) and
\* tasks counts the child's approved completions within the date range.
C13_LeaderboardScore ==
    boardResult.called
    => LET range == getDateRange(boardCall.period, boardCall.clock)
       IN \A k \in 1..Len(boardResult.entries) :
              LET e == boardResult.entries[k]
                  points == SumAt(boardLedger,
                                {i \in 1..Len(boardLedger) :
                                    /\ boardLedger[i].child = e.childId
                                    /\ boardLedger[i].type = "earned"
                                    /\ boardLedger[i].createdAt >= range.start
                                    /\ boardLedger[i].createdAt <= range.end})
                  tasks == Cardinality({i \in 1..Len(boardAssignments) :
                                    /\ boardAssignments[i].child = e.childId
                                    /\ boardAssignments[i].status = "approved"
                                    /\ boardAssignments[i].approvedAt >= range.start
                                    /\ boardAssignments[i].approvedAt <= range.end})
                  streak == boardProfiles[e.childId]
                  achievements == Cardinality({i \in 1..Len(boardAchievements) :
                                    boardAchievements[i].child = e.childId})
              IN e.score = points + 5 * tasks + 2 * streak + 10 * achievements

\* A child with earned, bonus and redeemed rows and an approved task today
C13_Witness ==
    /\ boardResult.called
    /\ boardCall.period = "daily"
    /\ \E k \in 1..Len(boardResult.entries) :
           /\ boardResult.entries[k].childId = "k1"
           /\ boardResult.entries[k].score = 105
           /\ \E i \in 1..Len(boardLedger) :
                  boardLedger[i].child = "k1" /\ boardLedger[i].type = "bonus"

----------------------------------------------------------------------------
(* Properties of the task approval (SpecApprove) *)

\* The approveTask call p ran through its award, achievement and streak steps
RanAllSteps(p) ==
    approvePc[p] = "done" \/ approveLocal[p].failedAt = "emit"

\* C14: within one approval the steps run in the order points/XP award,
\* streak update, achievement check: the check observes the streak that
\* already includes this approval, so a streak_days achievement whose
\* threshold this approval reaches is unlocked in the same event.
C14_StreakBeforeAchievementCheck ==
    \A p \in Calls :
        LET c == taskAssignments[AssignmentOf[p]].child
        IN /\ approveLocal[p].check.ran
              => approveLocal[p].check.child.current_streak_days
                 = taskHistory.streakBefore + 1
           /\ RanAllSteps(p)
              => \A i \in 1..Len(SYSTEM_ACHIEVEMENTS) :
                     (/\ SYSTEM_ACHIEVEMENTS[i].type = "streak_days"
                      /\ childProfiles[c].current_streak_days
                         >= SYSTEM_ACHIEVEMENTS[i].value)
                     => SYSTEM_ACHIEVEMENTS[i].id
                        \in UnlockedIn(childAchievements, c)

\* C15: when awardPoints fails while approveTask processes an assignment,
\* nothing of that approval persists: the assignment is not left approved
\* with points_awarded set.
C15_ApprovalAllOrNothing ==
    \A p \in Calls :
        approveLocal[p].failedAt = "awardPoints"
        => /\ taskAssignments[AssignmentOf[p]].status # "approved"
           /\ ~taskAssignments[AssignmentOf[p]].awarded

\* C16: once two interleaved approvals for the same child are over, the
\* outcome is that of running them one after the other: both earned ledger
\* rows exist, every row's balanceAfter is the running sum, and the cached
\* balance and counters reflect both awards.
C16_TwoApprovalsSerialize ==
    (\A p \in Calls : approvePc[p] \in {"done", "failed"})
    => LET rows == ledger[ApprovedChild]
           earned == {i \in 1..Len(rows) : rows[i].transactionType = "earned"}
           child == childProfiles[ApprovedChild]
       IN /\ Cardinality(earned) = Cardinality(Calls)
          /\ \A i \in 1..Len(rows) :
                 rows[i].balanceAfter = LedgerSum(SubSeq(rows, 1, i))
          /\ child.points_balance = LedgerSum(rows)
          /\ child.total_points_earned
             >= taskAssignments["a1"].totalPoints + taskAssignments["a2"].totalPoints
          /\ child.total_tasks_completed
             = taskHistory.tasksBefore + Cardinality(Calls)

\* Whether the criteria of a catalog achievement held for the child when the
\* check of call p read its counters
CriteriaHeld(p, achievement) ==
    LET seen == approveLocal[p].check
    IN CASE achievement.type = "streak_days" ->
                seen.child.current_streak_days >= achievement.value
         [] achievement.type = "tasks_completed" ->
                seen.child.total_tasks_completed >= achievement.value
         [] achievement.type = "points_earned" ->
                seen.child.total_points_earned >= achievement.value
         [] achievement.type = "category_master" ->
                seen.cleaning >= achievement.value
         [] achievement.type = "time_based" ->
                seen.early >= achievement.value

\* C17: checkAchievements unlocks a catalog achievement that was not yet
\* unlocked exactly when the condition of its criteria type holds for the
\* child, time_based included (Early Bird after 10 completions before 08:00).
C17_UnlockExactlyWhenCriteriaHold ==
    \A p \in Calls :
        approveLocal[p].check.ran
        => \A i \in 1..Len(SYSTEM_ACHIEVEMENTS) :
               SYSTEM_ACHIEVEMENTS[i].id \notin approveLocal[p].check.before
               => (SYSTEM_ACHIEVEMENTS[i].id \in approveLocal[p].check.after
                   <=> CriteriaHeld(p, SYSTEM_ACHIEVEMENTS[i]))

\* C18: checkAchievements returns exactly the achievements this invocation
\* newly unlocked (an empty list when there are none), and approveTask
\* reports that list as achievementsUnlocked of its task:approved event.
C18_ReturnsNewlyUnlocked ==
    \A p \in Calls :
        LET seen == approveLocal[p].check
            fresh == seen.after \ seen.before
        IN /\ (seen.ran /\ approveLocal[p].failedAt # "checkAchievements")
              => /\ approveLocal[p].newAchievements.defined
                 /\ approveLocal[p].newAchievements.ids = fresh
           /\ RanAllSteps(p)
              => \E i \in 1..Len(emitted) :
                     /\ emitted[i].event = "task:approved"
                     /\ emitted[i].assignmentId = AssignmentOf[p]
                     /\ emitted[i].achievementsUnlocked = fresh

----------------------------------------------------------------------------
(* Properties of levelFromXp on arbitrary totals (SpecTotalXp) *)

\* C27: for every totalXp >= 0 levelFromXp returns 1 <= level <= 100 with
\* cumulativeXpForLevel(level - 1) + currentXp = totalXp and 0 <= progress <=
\* 100; below level 100, 0 <= currentXp < xpToNext = xpRequiredForLevel(level);
\* at level 100 the XP beyond the cap stays in currentXp; and the level does
\* not decrease when totalXp grows.
C27_LevelFromXpConserves ==
    lvlCall.stage = "done"
    => LET r == lvlResult
           t == lvlCall.totalXp
       IN /\ 1 <= r.level /\ r.level <= 100
          /\ cumulativeXpForLevel(r.level - 1) + r.currentXp = t
          /\ 0 <= r.progress /\ r.progress <= 100
          /\ r.level < 100
             => /\ 0 <= r.currentXp
                /\ r.currentXp < r.xpToNext
                /\ r.xpToNext = xpRequiredForLevel(r.level)
          /\ r.level = 100 => r.currentXp = t - cumulativeXpForLevel(99)
          /\ \A more \in {1, 100, 100000} : levelFromXp(t + more).level >= r.level

\* A total beyond the cap: level 100 with more XP left than the level asks for
C27_Witness ==
    /\ lvlCall.stage = "done"
    /\ lvlResult.level = 100
    /\ lvlResult.currentXp > lvlResult.xpToNext
    /\ lvlResult.progress = 100

----------------------------------------------------------------------------
(* Termination of calculateStreak (SpecStreakAny) *)

\* The distinct streak-days of the queried history
StreakDaysInHistory == Cardinality(DOMAIN completionsByDay)

\* C28: under every configuration the constructor takes (gracePeriodHours 0..12,
\* any minimumTasksPerDay, 0 included) a call of calculateStreak that has entered
\* its loop returns, and while it runs and when it returns currentStreak is at
\* most the number of distinct streak-days of the queried history.
C28_CalculateStreakTerminates ==
    /\ (calcPc = "loop") ~> (calcPc = "done")
    /\ [](calcPc \in {"loop", "risk", "done"} => currentStreak <= StreakDaysInHistory)

\* The part of C28 that the code keeps: with minimumTasksPerDay >= 1 the walk
\* ends and counts no more days than the history has.
C28_TerminatesWhenPositive ==
    /\ (calcPc = "loop" /\ minimumTasksPerDay >= 1) ~> (calcPc = "done")
    /\ [](minimumTasksPerDay >= 1 /\ calcPc \in {"loop", "risk", "done"}
             => currentStreak <= StreakDaysInHistory)

\* The walk with minimumTasksPerDay = 0 has counted more days than the 90 of
\* the query and is still in the loop
C28_RunawayWalk ==
    /\ calcPc = "loop"
    /\ minimumTasksPerDay = 0
    /\ currentStreak > WindowDays + MaxDays + 1
    /\ StreakDaysInHistory <= MaxCompletions

----------------------------------------------------------------------------
(* Properties of the family and auth routes (SpecFamily) *)

\* The requests that read or change one child
ChildOps == {"getChild", "putChild", "deleteChild", "addChild", "setupPin"}

MutatingOps == {"putChild", "deleteChild", "addChild", "setupPin"}

\* C21: a request that reads or changes a child succeeds only when the child
\* belongs to the caller's family and, if it changes something, the caller is a
\* parent; a request aimed at a child of another family fails; and no such
\* request changes the user row, the profile or the PIN of a child of another
\* family.
C21_FamilyIsolation ==
    [][(users' # users \/ authResult' # authResult) =>
        LET r == authResult'
            mine == users[r.caller].familyId
        IN r.op \in ChildOps =>
              /\ r.outcome = "ok" =>
                     /\ users'[r.target].familyId = mine
                     /\ r.op \in MutatingOps => users[r.caller].role = "parent"
              /\ (r.target # "" /\ users[r.target].exists
                      /\ users[r.target].familyId # mine) => r.outcome # "ok"
              /\ \A u \in UserIds :
                     (users[u].exists /\ users[u].familyId # mine) => users'[u] = users[u]
              /\ \A u \in UserIds :
                     (~users[u].exists /\ users'[u].exists) => users'[u].familyId = mine
      ]_vars

\* A parent of family fA has tried to set the PIN of the child of family fB and
\* has tried to update and to deactivate it; the child is as it was
C21_Witness ==
    /\ authResult.op \in {"setupPin", "putChild", "deleteChild"}
    /\ authResult.caller = "pA"
    /\ authResult.target = "c2"
    /\ authResult.outcome \in {"Unauthorized", "NotFound"}
    /\ users["c2"] = ChildRow("fB", "Lee", "lee", NoHash)
    /\ users["c1"].pinHash = Hash("1111")
    /\ users["c3"].exists

\* C26: a deactivated child stays deactivated, no childLogin signs a token for
\* it and no refreshToken accepts a token of it.
C26_DeactivatedStaysOut ==
    /\ [](authResult.op \in {"childLogin", "refresh"} /\ authResult.outcome = "ok"
             => ~users[authResult.target].deleted /\ users[authResult.target].isActive)
    /\ [][\A u \in UserIds :
             users[u].deleted => users'[u].deleted /\ ~users'[u].isActive]_vars

\* The child logged in, was deactivated, and its refresh token was turned down
C26_Witness ==
    /\ users["c1"].deleted
    /\ authResult.op = "refresh"
    /\ authResult.target = "c1"
    /\ authResult.outcome = "Unauthorized"
    /\ \E t \in browser.stored : t.userId = "c1"

\* C29: no two users rows carry the same username, compared without case.
C29_UsernamesUnique ==
    \A u, v \in UserIds :
        (u # v /\ users[u].exists /\ users[v].exists
             /\ users[u].username # "" /\ users[v].username # "")
            => ~EqualsInsensitive(users[u].username, users[v].username)

\* What addChild alone keeps: a username that is taken is refused with a
\* conflict and nothing changes
C29_AddChildRefusesTaken ==
    [][(authResult' # authResult /\ authResult'.op = "addChild"
            /\ authResult'.outcome = "Conflict") => users' = users]_vars

----------------------------------------------------------------------------
(* Properties of the PIN lockout (SpecLockout) *)

\* The child's last LOCK_AFTER failed PIN attempts lie within LOCK_MINUTES and
\* the lock they call for has not run out
FiveRecentFailures(c) ==
    LET f == failureLog[c]
        n == Len(f)
    IN /\ n >= LOCK_AFTER
       /\ f[n] - f[n - LOCK_AFTER + 1] <= LOCK_MINUTES
       /\ authNow < f[n] + LOCK_MINUTES

C22_LockedAfterFive == \A c \in ChildIds : FiveRecentFailures(c) => IsLocked(c)

C22_LockedRejects ==
    (authResult.op \in {"childLogin", "loginWithPin"} /\ authResult.outcome = "ok")
        => ~IsLocked(authResult.target)

\* C22: after 5 failed PIN attempts for one child within 15 minutes the account
\* is locked for 15 minutes, and while it is locked no child login succeeds,
\* whatever the PIN.
C22_AccountLockout == C22_LockedAfterFive /\ C22_LockedRejects

----------------------------------------------------------------------------
(* Properties of the session (SpecSession) *)

\* C30: a refresh token that the session had been sent before it logged out is
\* not accepted by POST /auth/refresh afterwards, from the cookie or the body.
C30_LogoutEndsSession ==
    (authResult.op = "refresh" /\ authResult.outcome = "ok")
        => authResult.tokens \cap browser.ended = {}

----------------------------------------------------------------------------
(* Properties of the offline sync (SpecSync) *)

InSyncQueue(id) == \E x \in syncQueue : x.id = id

TimesInDeadLetter(id) ==
    Cardinality({k \in 1..Len(syncDeadLetter) : syncDeadLetter[k].id = id})

----------------------------------------------------------------------------
(* Properties of repeated approval (SpecReapprove) *)

EarnedRows(c) == {k \in 1..Len(ledger[c]) : ledger[c][k].transactionType = "earned"}

AssignmentsOf(c) == {a \in DOMAIN taskAssignments : taskAssignments[a].child = c}

\* C24: whatever approveTask calls have run, a child's ledger holds at most one
\* 'earned' row per assignment of the child, and the child's XP has grown by at
\* most the XP of one approval per assignment.
C24_PaidAtMostOnce ==
    \A c \in Children :
        /\ Cardinality(EarnedRows(c)) <= Cardinality(AssignmentsOf(c))
        /\ childProfiles[c].experience_points
               <= 10 * taskHistory.tasksBefore + ApprovalXp * Cardinality(AssignmentsOf(c))

----------------------------------------------------------------------------
(* Properties of concurrent unlocking (SpecRace) *)

\* C25: however the steps of two unlockAchievement invocations for one child
\* and one achievement interleave, child_achievements holds at most one row
\* for the pair, the ledger at most one bonus row for it, and at most one
\* notification was sent for it.
C25_UnlockOnceUnderRace ==
    \A c \in Children, a \in Achievements :
        /\ Cardinality({k \in 1..Len(childAchievements) :
               childAchievements[k] = [child |-> c, achievement |-> a]}) <= 1
        /\ Cardinality({k \in 1..Len(ledger[c]) :
               ledger[c][k].referenceType = "achievement_unlock"}) <= 1
        /\ Cardinality({k \in 1..Len(notifications) :
               /\ notifications[k].user = c
               /\ notifications[k].achievement = a}) <= 1

\* Both invocations found no row; one inserted and notified, the other was
\* stopped by the constraint
C25_Witness ==
    /\ \E i, j \in Invocations :
          /\ unlockCalls[i].pc = "done"
          /\ unlockCalls[j].pc = "failed"
          /\ unlockCalls[j].error = "unique_violation"
    /\ Len(childAchievements) = 1
    /\ Len(notifications) = 1

====
